---- MODULE Spec2Model ----
(***************************************************************************)
(* Verification model of the ArchiSlicer backend: the path order optimizer *)
(* (services/optimization/path_optimizer.py), its HTTP operations          *)
(* (routers/infill.py) and the per-polygon batch loops of the infill and   *)
(* centerline services.                                                    *)
(*                                                                         *)
(* Coordinates are integers and every input point set is chosen so that    *)
(* all pairwise Euclidean distances are integers; calculate_distance is    *)
(* then the exact square root, as in the source.                           *)
(***************************************************************************)
EXTENDS Integers, Sequences, FiniteSets, TLC

\* The path order optimizer and its two HTTP operations.
VARIABLES entry, kind, request_lines, segments, polylines, start_point,
          pc, remaining, ordered, current_pos, total_drawing, total_travel,
          result, stats, response

\* The answer of the routing solver to _ortools_optimize.
VARIABLES solution

\* The per-polygon loops of extract_centerlines and of
\* generate_infill_for_polygons_with_polylines.
VARIABLES batch_op, polygons, method, pattern_type, CENTERLINE_AVAILABLE,
          poly_index, all_centerlines, all_segments, all_polylines,
          batch_pc, http_status

\* One request under TimeoutMiddleware on the single-threaded event loop.
VARIABLES clock, endpoint, work, loop_pc, timer, reply, other

\* One call of a geometry function: its name, its arguments, what it returns.
VARIABLES geom_op, geom_args, geom_out

\* The tool-preset repository and the answer to the last request.
VARIABLES storage, next_id, preset_reply

\* The pen-type table and the answer to the last request.
VARIABLES pen_types, pen_reply

\* The project repository (projects, their archived versions, the next
\* project id) and the answer to the last request.
VARIABLES projects, versions, next_project_id, project_reply

optimizerVars ==
    <<entry, kind, request_lines, segments, polylines, start_point,
      pc, remaining, ordered, current_pos, total_drawing, total_travel,
      result, stats, response>>

batchVars ==
    <<batch_op, polygons, method, pattern_type, CENTERLINE_AVAILABLE,
      poly_index, all_centerlines, all_segments, all_polylines,
      batch_pc, http_status>>

timeoutVars == <<clock, endpoint, work, loop_pc, timer, reply, other>>

geometryVars == <<geom_op, geom_args, geom_out>>

presetVars == <<storage, next_id, preset_reply>>

penVars == <<pen_types, pen_reply>>

projectVars == <<projects, versions, next_project_id, project_reply>>

\* The three repositories.
repositoryVars == <<presetVars, penVars, projectVars>>

\* What the optimizer's own steps leave alone.
outsideOptimizer == <<solution, batchVars, timeoutVars, geometryVars, repositoryVars>>

\* What _ortools_optimize leaves alone.
outsideSolver == <<batchVars, timeoutVars, geometryVars, repositoryVars>>

\* What the per-polygon loops leave alone.
outsideBatch == <<optimizerVars, solution, timeoutVars, geometryVars, repositoryVars>>

\* What the event loop leaves alone.
outsideTimeout == <<optimizerVars, solution, batchVars, geometryVars, repositoryVars>>

\* What a geometry function leaves alone.
outsideGeometry == <<optimizerVars, solution, batchVars, timeoutVars, repositoryVars>>

\* What the tool-preset operations leave alone.
outsidePresets ==
    <<optimizerVars, solution, batchVars, timeoutVars, geometryVars, penVars, projectVars>>

\* What the pen-type operations leave alone.
outsidePenTypes ==
    <<optimizerVars, solution, batchVars, timeoutVars, geometryVars, presetVars, projectVars>>

\* What the project operations leave alone.
outsideProjects ==
    <<optimizerVars, solution, batchVars, timeoutVars, geometryVars, presetVars, penVars>>

vars == <<optimizerVars, solution, batchVars, timeoutVars, geometryVars, repositoryVars>>

(***************************************************************************)
(* Bounds of the model.                                                    *)
(***************************************************************************)
MaxSegs == 3

MaxChain == 3

MaxPolys == 2

MaxPolyPts == 3

MaxBatch == 3

MaxRouted == 2

(***************************************************************************)
(* Values.                                                                 *)
(***************************************************************************)
\* Python's None (an absent start point, an unset local).
None == <<>>

\* float("inf"), the initial best_dist of a scan: above every distance.
Inf == 1000000

\* Input points: all six pairwise distances are integers (3, 3, 4, 5, 5, 6),
\* with ties between equidistant points.
Points == {<<0, 0>>, <<3, 0>>, <<-3, 0>>, <<0, 4>>}

\* Points of the collinear chain 0, 1, ..., MaxChain.
ChainPoints == {<<x, 0>> : x \in 0..MaxChain}

SeqsUpTo(S, n) == UNION {[1..k -> S] : k \in 0..n}

\* LineSegment: a pair of points (degenerate ones included).
AllSegments == Points \X Points

ProperSegments == {s \in AllSegments : s[1] # s[2]}

\* Points of the polylines (distances 3, 4, 5).
PolyPoints == {<<0, 0>>, <<3, 0>>, <<0, 4>>}

\* Points of the lines of an optimize-path request.
RequestPoints == {<<0, 0>>, <<3, 0>>, <<0, 4>>}

\* The lines of a request (degenerate ones included).
RequestLines == RequestPoints \X RequestPoints

\* The closed triangles on PolyPoints, in both traversal directions: the
\* smallest rings whose rotation differs from their reversal.
TriangleRings ==
    {<<a, b, c, a>> : a \in PolyPoints, b \in PolyPoints, c \in PolyPoints}

\* Polyline: a sequence of at least two points, no edge of length zero.
AllPolylines ==
    {p \in UNION {[1..n -> PolyPoints] : n \in 2..MaxPolyPts} \cup TriangleRings :
        \A i \in 1..(Len(p) - 1) : p[i] # p[i + 1]}

(***************************************************************************)
(* path_optimizer.py: helpers.                                             *)
(***************************************************************************)
\* The exact square root (the inputs make every argument a perfect square).
ISqrt(n) == CHOOSE r \in 0..n : r * r = n

calculate_distance(p1, p2) ==
    ISqrt((p2[1] - p1[1]) * (p2[1] - p1[1]) + (p2[2] - p1[2]) * (p2[2] - p1[2]))

\* Mutant of PopAt: pop(0), whatever index the scan chose.
PopAtFirst(s, i) == Tail(s)

\* list.pop(i) leaves the list without its i-th element (1-based here).
PopAt(s, i) == [j \in 1..(Len(s) - 1) |-> IF j < i THEN s[j] ELSE s[j + 1]]

\* Mutant of IsNearer: "<=", the last of several equidistant endpoints wins.
IsNearerOrEqual(d, best_dist) == d <= best_dist

\* "if d_start < best_dist" / "if d_end < best_dist": strict, first one wins.
IsNearer(d, best_dist) == d < best_dist

\* One pass of "for i, seg in enumerate(remaining)".
RECURSIVE ScanSegments(_, _, _, _)
ScanSegments(rem, pos, i, best) ==
    IF i > Len(rem) THEN best
    ELSE LET seg == rem[i]
             d_start == calculate_distance(pos, seg[1])
             d_end == calculate_distance(pos, seg[2])
             b1 == IF IsNearer(d_start, best.best_dist)
                   THEN [best_idx |-> i, best_dist |-> d_start, best_reversed |-> FALSE]
                   ELSE best
             b2 == IF IsNearer(d_end, b1.best_dist)
                   THEN [best_idx |-> i, best_dist |-> d_end, best_reversed |-> TRUE]
                   ELSE b1
         IN ScanSegments(rem, pos, i + 1, b2)

\* Mutant of OrientSegment: the chosen segment is never turned round.
OrientSegmentNever(seg, best_reversed) == seg

\* "if best_reversed: seg = (seg[1], seg[0])".
OrientSegment(seg, best_reversed) ==
    IF best_reversed THEN <<seg[2], seg[1]>> ELSE seg

\* "total_drawing += calculate_distance(seg[0], seg[1])".
SegmentLength(seg) == calculate_distance(seg[1], seg[2])

\* Mutant of GreedyIterate: the travel distance is added to the drawing total.
GreedyIterateDrawsTravel(st) ==
    LET best == ScanSegments(st.remaining, st.current_pos, 1,
                             [best_idx |-> 1, best_dist |-> Inf, best_reversed |-> FALSE])
        seg == OrientSegment(st.remaining[best.best_idx], best.best_reversed)
    IN [remaining |-> PopAt(st.remaining, best.best_idx),
        ordered |-> Append(st.ordered, seg),
        current_pos |-> seg[2],
        total_drawing |-> st.total_drawing + best.best_dist,
        total_travel |-> st.total_travel + best.best_dist]

\* The body of "while remaining:" of _greedy_optimize, on the loop's locals.
GreedyIterate(st) ==
    LET best == ScanSegments(st.remaining, st.current_pos, 1,
                             [best_idx |-> 1, best_dist |-> Inf, best_reversed |-> FALSE])
        seg == OrientSegment(st.remaining[best.best_idx], best.best_reversed)
    IN [remaining |-> PopAt(st.remaining, best.best_idx),
        ordered |-> Append(st.ordered, seg),
        current_pos |-> seg[2],
        total_drawing |-> st.total_drawing + SegmentLength(seg),
        total_travel |-> st.total_travel + best.best_dist]

\* The locals of _greedy_optimize before its loop.
GreedyStart(segs, sp) ==
    [remaining |-> segs,
     ordered |-> <<>>,
     current_pos |-> IF sp # None THEN sp ELSE segs[1][1],
     total_drawing |-> 0,
     total_travel |-> 0]

\* The statistics of the degenerate sizes (no "method" key).
PlainStats(drawing) ==
    [total_drawing_length_mm |-> drawing,
     total_travel_length_mm |-> 0,
     num_pen_lifts |-> 0,
     optimization_applied |-> FALSE]

\* The statistics returned after the greedy loop.
GreedyStats(st) ==
    [total_drawing_length_mm |-> st.total_drawing,
     total_travel_length_mm |-> st.total_travel,
     num_pen_lifts |-> Len(st.ordered) - 1,
     optimization_applied |-> TRUE,
     method |-> "greedy"]

\* The early return of _greedy_optimize on an empty list (three keys only).
GreedyEmptyStats ==
    [total_drawing_length_mm |-> 0,
     total_travel_length_mm |-> 0,
     num_pen_lifts |-> 0]

RECURSIVE GreedyLoop(_)
GreedyLoop(st) ==
    IF st.remaining = <<>> THEN st ELSE GreedyLoop(GreedyIterate(st))

\* _greedy_optimize as a function: <<ordered, stats>>.
greedy_optimize(segs, sp) ==
    IF Len(segs) = 0 THEN <<(<<>>), GreedyEmptyStats>>
    ELSE LET st == GreedyLoop(GreedyStart(segs, sp))
         IN <<st.ordered, GreedyStats(st)>>

\* Mutant of ReturnedAsGiven: a single item goes through the greedy loop.
ReturnedAsGivenOnlyIfEmpty(items) == Len(items) = 0

\* "if len(segments) == 0" / "if len(segments) == 1": such a list is returned
\* as it is (the same two tests open optimize_polyline_path).
ReturnedAsGiven(items) == Len(items) = 0 \/ Len(items) = 1

\* optimize_drawing_path as a function: <<ordered, stats>>.
optimize_drawing_path(segs, sp) ==
    IF Len(segs) = 0 THEN <<(<<>>), PlainStats(0)>>
    ELSE IF ReturnedAsGiven(segs) THEN <<segs, PlainStats(SegmentLength(segs[1]))>>
    ELSE greedy_optimize(segs, sp)

(***************************************************************************)
(* path_optimizer.py: polylines.                                           *)
(***************************************************************************)
\* is_closed: "dist < 0.001", in thousandths.
is_closed(polyline) ==
    IF Len(polyline) < 2 THEN FALSE
    ELSE 1000 * calculate_distance(polyline[1], polyline[Len(polyline)]) < 1

\* "for j in range(len(polyline) - 1)" on a closed polyline (j is 0-based).
RECURSIVE ScanRing(_, _, _, _, _)
ScanRing(polyline, pos, i, j, best) ==
    IF j > Len(polyline) - 2 THEN best
    ELSE LET dist == calculate_distance(pos, polyline[j + 1])
             b == IF IsNearer(dist, best.best_dist)
                  THEN [best_idx |-> i, best_dist |-> dist, best_start_idx |-> j]
                  ELSE best
         IN ScanRing(polyline, pos, i, j + 1, b)

\* Mutant of ScanOpen: only the first point of an open polyline is tested.
ScanOpenStartOnly(polyline, pos, i, best) ==
    LET d_start == calculate_distance(pos, polyline[1])
    IN IF IsNearer(d_start, best.best_dist)
       THEN [best_idx |-> i, best_dist |-> d_start, best_start_idx |-> 0]
       ELSE best

\* The two endpoint tests of an open polyline; -1 marks "reversed".
ScanOpen(polyline, pos, i, best) ==
    LET d_start == calculate_distance(pos, polyline[1])
        d_end == calculate_distance(pos, polyline[Len(polyline)])
        b1 == IF IsNearer(d_start, best.best_dist)
              THEN [best_idx |-> i, best_dist |-> d_start, best_start_idx |-> 0]
              ELSE best
    IN IF IsNearer(d_end, b1.best_dist)
       THEN [best_idx |-> i, best_dist |-> d_end, best_start_idx |-> -1]
       ELSE b1

\* One pass of "for i, polyline in enumerate(remaining)".
RECURSIVE ScanPolylines(_, _, _, _)
ScanPolylines(rem, pos, i, best) ==
    IF i > Len(rem) THEN best
    ELSE ScanPolylines(rem, pos, i + 1,
                       IF is_closed(rem[i]) THEN ScanRing(rem[i], pos, i, 0, best)
                       ELSE ScanOpen(rem[i], pos, i, best))

Reverse(s) == [k \in 1..Len(s) |-> s[Len(s) + 1 - k]]

\* Mutant of RotateRing: the second slice starts at the seam point again.
RotateRingKeepsSeam(polyline, k) ==
    SubSeq(polyline, k + 1, Len(polyline)) \o SubSeq(polyline, 1, k + 1)

\* "polyline[best_start_idx:] + polyline[1 : best_start_idx + 1]".
RotateRing(polyline, k) ==
    SubSeq(polyline, k + 1, Len(polyline)) \o SubSeq(polyline, 2, k + 1)

\* The polyline as it is drawn: a ring rotated, an open one reversed.
OrientPolyline(polyline, best_start_idx) ==
    IF is_closed(polyline)
    THEN IF best_start_idx > 0 THEN RotateRing(polyline, best_start_idx) ELSE polyline
    ELSE IF best_start_idx = -1 THEN Reverse(polyline) ELSE polyline

RECURSIVE PolylineLength(_)
PolylineLength(polyline) ==
    IF Len(polyline) < 2 THEN 0
    ELSE calculate_distance(polyline[1], polyline[2]) + PolylineLength(Tail(polyline))

\* The locals of _greedy_optimize_polylines before its loop.
GreedyStartPolylines(pls, sp) ==
    [remaining |-> pls,
     ordered |-> <<>>,
     current_pos |-> IF sp # None THEN sp ELSE pls[1][1],
     total_drawing |-> 0,
     total_travel |-> 0]

\* The body of "while remaining:" of _greedy_optimize_polylines.
GreedyIteratePolylines(st) ==
    LET best == ScanPolylines(st.remaining, st.current_pos, 1,
                              [best_idx |-> 1, best_dist |-> Inf, best_start_idx |-> 0])
        polyline == OrientPolyline(st.remaining[best.best_idx], best.best_start_idx)
    IN [remaining |-> PopAt(st.remaining, best.best_idx),
        ordered |-> Append(st.ordered, polyline),
        current_pos |-> polyline[Len(polyline)],
        total_drawing |-> st.total_drawing + PolylineLength(polyline),
        total_travel |-> st.total_travel + best.best_dist]

(***************************************************************************)
(* The calls, step by step.                                                *)
(***************************************************************************)
LoopState ==
    [remaining |-> remaining, ordered |-> ordered, current_pos |-> current_pos,
     total_drawing |-> total_drawing, total_travel |-> total_travel]

SetLoopState(st) ==
    /\ remaining' = st.remaining
    /\ ordered' = st.ordered
    /\ current_pos' = st.current_pos
    /\ total_drawing' = st.total_drawing
    /\ total_travel' = st.total_travel

NoLoopState ==
    /\ remaining = <<>>
    /\ ordered = <<>>
    /\ current_pos = None
    /\ total_drawing = 0
    /\ total_travel = 0

\* No solver has been asked.
SolverIdle == solution = None

\* No request is under the timeout middleware.
TimeoutIdle ==
    /\ clock = 0
    /\ endpoint = "none"
    /\ work = 0
    /\ loop_pc = "idle"
    /\ timer = "unset"
    /\ reply = 0
    /\ other = "none"

\* No geometry function is being called.
GeometryIdle ==
    /\ geom_op = "none"
    /\ geom_args = None
    /\ geom_out = None

\* The tool-preset repository is not in use.
PresetsIdle ==
    /\ storage = <<>>
    /\ next_id = 0
    /\ preset_reply = None

\* No pen-type request is handled.
PenTypesIdle ==
    /\ pen_types = <<>>
    /\ pen_reply = None

\* No project request is handled.
ProjectsIdle ==
    /\ projects = <<>>
    /\ versions = <<>>
    /\ next_project_id = 0
    /\ project_reply = None

\* No batch of polygons is being processed.
BatchIdle ==
    /\ batch_op = "none"
    /\ polygons = <<>>
    /\ method = "none"
    /\ pattern_type = "none"
    /\ CENTERLINE_AVAILABLE = FALSE
    /\ poly_index = 0
    /\ all_centerlines = <<>>
    /\ all_segments = <<>>
    /\ all_polylines = <<>>
    /\ batch_pc = "idle"
    /\ http_status = 0

\* No optimizer call is in progress.
OptimizerIdle ==
    /\ entry = "none"
    /\ kind = "none"
    /\ request_lines = <<>>
    /\ segments = <<>>
    /\ polylines = <<>>
    /\ start_point = None
    /\ pc = "idle"
    /\ NoLoopState
    /\ result = None
    /\ stats = None
    /\ response = None

\* PathOptimizerService.optimize_segments called with a list of segments.
InitService ==
    /\ entry = "service"
    /\ kind = "segments"
    /\ request_lines = <<>>
    /\ segments \in SeqsUpTo(ProperSegments, MaxSegs)
    /\ polylines = <<>>
    /\ start_point \in Points \cup {None}
    /\ pc = "call"
    /\ NoLoopState
    /\ result = None
    /\ stats = None
    /\ response = None
    /\ SolverIdle
    /\ BatchIdle
    /\ TimeoutIdle
    /\ GeometryIdle
    /\ PresetsIdle
    /\ PenTypesIdle
    /\ ProjectsIdle

\* The same call on the collinear chain [0,1], [1,2], ..., [k-1,k] in any order
\* and orientation, starting at one extreme end of the chain.
ChainSegmentSets(k) == {{<<i - 1, 0>>, <<i, 0>>} : i \in 1..k}

ChainInputs(k) ==
    {s \in [1..k -> ChainPoints \X ChainPoints] :
        {{s[i][1], s[i][2]} : i \in 1..k} = ChainSegmentSets(k)}

InitChain ==
    /\ entry = "service"
    /\ kind = "segments"
    /\ request_lines = <<>>
    /\ \E k \in 1..MaxChain :
          /\ segments \in ChainInputs(k)
          /\ start_point \in {<<0, 0>>, <<k, 0>>}
    /\ polylines = <<>>
    /\ pc = "call"
    /\ NoLoopState
    /\ result = None
    /\ stats = None
    /\ response = None
    /\ SolverIdle
    /\ BatchIdle
    /\ TimeoutIdle
    /\ GeometryIdle
    /\ PresetsIdle
    /\ PenTypesIdle
    /\ ProjectsIdle

\* POST /api/infill/optimize-path with a list of lines.
InitOptimizePath ==
    /\ entry = "router"
    /\ kind = "segments"
    /\ request_lines \in SeqsUpTo(RequestLines, MaxSegs)
    /\ segments = <<>>
    /\ polylines = <<>>
    /\ start_point \in RequestPoints \cup {None}
    /\ pc = "request"
    /\ NoLoopState
    /\ result = None
    /\ stats = None
    /\ response = None
    /\ SolverIdle
    /\ BatchIdle
    /\ TimeoutIdle
    /\ GeometryIdle
    /\ PresetsIdle
    /\ PenTypesIdle
    /\ ProjectsIdle

\* PathOptimizerService.optimize_polylines called with no polyline (the
\* non-empty lists reach it through optimize_polylines below).
InitServicePolylines ==
    /\ entry = "service"
    /\ kind = "polylines"
    /\ request_lines = <<>>
    /\ segments = <<>>
    /\ polylines = <<>>
    /\ start_point \in PolyPoints \cup {None}
    /\ pc = "call"
    /\ NoLoopState
    /\ result = None
    /\ stats = None
    /\ response = None
    /\ SolverIdle
    /\ BatchIdle
    /\ TimeoutIdle
    /\ GeometryIdle
    /\ PresetsIdle
    /\ PenTypesIdle
    /\ ProjectsIdle

\* POST /api/infill/optimize-polylines with a list of polylines.
InitOptimizePolylines ==
    /\ entry = "router"
    /\ kind = "polylines"
    /\ request_lines \in SeqsUpTo(AllPolylines, MaxPolys)
    /\ segments = <<>>
    /\ polylines = <<>>
    /\ start_point \in PolyPoints \cup {None}
    /\ pc = "request"
    /\ NoLoopState
    /\ result = None
    /\ stats = None
    /\ response = None
    /\ SolverIdle
    /\ BatchIdle
    /\ TimeoutIdle
    /\ GeometryIdle
    /\ PresetsIdle
    /\ PenTypesIdle
    /\ ProjectsIdle

Init ==
    \/ InitService
    \/ InitChain
    \/ InitOptimizePath
    \/ InitServicePolylines
    \/ InitOptimizePolylines

(***************************************************************************)
(* routers/infill.py: optimize_path.                                       *)
(***************************************************************************)
\* dict.get(key, default).
Get(d, key, default) == IF key \in DOMAIN d THEN d[key] ELSE default

\* Mutant of IsKept: only the x coordinates are compared.
IsKeptByX(line) == line[1][1] # line[2][1]

\* "if start != end: segments.append((start, end))".
IsKept(line) == line[1] # line[2]

\* PathOptimizationResponse; optimization_method defaults to "greedy".
\* round(x, 2) leaves the integer lengths of this model as they are.
PathResponse(lines, drawing, travel, lifts, optimization_method) ==
    [ordered_lines |-> lines,
     total_drawing_length_mm |-> drawing,
     total_travel_length_mm |-> travel,
     num_pen_lifts |-> lifts,
     optimization_method |-> optimization_method]

\* PolylineOptimizationResponse; optimization_method defaults to "greedy".
PolylineResponse(lines, drawing, travel, lifts, optimization_method) ==
    [ordered_polylines |-> lines,
     total_drawing_length_mm |-> drawing,
     total_travel_length_mm |-> travel,
     num_pen_lifts |-> lifts,
     optimization_method |-> optimization_method]

\* The response built from the optimizer's statistics.
ResponseFromStats(lines, st) ==
    PathResponse(lines,
                 Get(st, "total_drawing_length_mm", 0),
                 Get(st, "total_travel_length_mm", 0),
                 Get(st, "num_pen_lifts", 0),
                 Get(st, "method", "unknown"))

\* optimize_path up to the call of optimize_segments: the empty request and
\* the request left empty by the filter are answered at once.
OptimizePathRequest ==
    /\ pc = "request"
    /\ kind = "segments"
    /\ LET kept == SelectSeq(request_lines, IsKept)
       IN IF Len(request_lines) = 0 \/ Len(kept) = 0
          THEN /\ response' = PathResponse(<<>>, 0, 0, 0, "greedy")
               /\ pc' = "responded"
               /\ UNCHANGED segments
          ELSE /\ segments' = kept
               /\ pc' = "call"
               /\ UNCHANGED response
    /\ UNCHANGED outsideOptimizer
    /\ UNCHANGED <<entry, kind, request_lines, polylines, start_point,
                   remaining, ordered, current_pos, total_drawing, total_travel,
                   result, stats>>

\* optimize_path after optimize_segments has returned.
OptimizePathRespond ==
    /\ pc = "done"
    /\ entry = "router"
    /\ kind = "segments"
    /\ response' = ResponseFromStats(result, stats)
    /\ pc' = "responded"
    /\ UNCHANGED outsideOptimizer
    /\ UNCHANGED <<entry, kind, request_lines, segments, polylines, start_point,
                   remaining, ordered, current_pos, total_drawing, total_travel,
                   result, stats>>

\* optimize_polylines up to the call of the service: the empty request is
\* answered at once with the method "none".
OptimizePolylinesRequest ==
    /\ pc = "request"
    /\ kind = "polylines"
    /\ IF Len(request_lines) = 0
       THEN /\ response' = PolylineResponse(<<>>, 0, 0, 0, "none")
            /\ pc' = "responded"
            /\ UNCHANGED polylines
       ELSE /\ polylines' = request_lines
            /\ pc' = "call"
            /\ UNCHANGED response
    /\ UNCHANGED outsideOptimizer
    /\ UNCHANGED <<entry, kind, request_lines, segments, start_point,
                   remaining, ordered, current_pos, total_drawing, total_travel,
                   result, stats>>

\* optimize_polylines after the service has returned.
OptimizePolylinesRespond ==
    /\ pc = "done"
    /\ entry = "router"
    /\ kind = "polylines"
    /\ response' = PolylineResponse(result,
                                    Get(stats, "total_drawing_length_mm", 0),
                                    Get(stats, "total_travel_length_mm", 0),
                                    Get(stats, "num_pen_lifts", 0),
                                    Get(stats, "method", "unknown"))
    /\ pc' = "responded"
    /\ UNCHANGED outsideOptimizer
    /\ UNCHANGED <<entry, kind, request_lines, segments, polylines, start_point,
                   remaining, ordered, current_pos, total_drawing, total_travel,
                   result, stats>>

\* optimize_polyline_path, 0 or 1 polyline: returned as it is.
PolylinesTrivial ==
    /\ pc = "call"
    /\ kind = "polylines"
    /\ ReturnedAsGiven(polylines)
    /\ result' = polylines
    /\ stats' = PlainStats(IF Len(polylines) = 0 THEN 0 ELSE PolylineLength(polylines[1]))
    /\ pc' = "done"
    /\ UNCHANGED outsideOptimizer
    /\ UNCHANGED <<entry, kind, request_lines, segments, polylines, start_point,
                   remaining, ordered, current_pos, total_drawing, total_travel,
                   response>>

\* optimize_polyline_path, 2 or more: _greedy_optimize_polylines up to its loop.
PolylinesGreedyStart ==
    /\ pc = "call"
    /\ kind = "polylines"
    /\ ~ReturnedAsGiven(polylines)
    /\ SetLoopState(GreedyStartPolylines(polylines, start_point))
    /\ pc' = "greedy"
    /\ UNCHANGED outsideOptimizer
    /\ UNCHANGED <<entry, kind, request_lines, segments, polylines, start_point,
                   result, stats, response>>

\* One iteration of "while remaining:" of _greedy_optimize_polylines.
PolylinesGreedyStep ==
    /\ pc = "greedy"
    /\ kind = "polylines"
    /\ remaining # <<>>
    /\ SetLoopState(GreedyIteratePolylines(LoopState))
    /\ UNCHANGED outsideOptimizer
    /\ UNCHANGED <<entry, kind, request_lines, segments, polylines, start_point,
                   pc, result, stats, response>>

\* The return of _greedy_optimize_polylines.
PolylinesGreedyReturn ==
    /\ pc = "greedy"
    /\ kind = "polylines"
    /\ remaining = <<>>
    /\ result' = ordered
    /\ stats' = GreedyStats(LoopState)
    /\ pc' = "done"
    /\ UNCHANGED outsideOptimizer
    /\ UNCHANGED <<entry, kind, request_lines, segments, polylines, start_point,
                   remaining, ordered, current_pos, total_drawing, total_travel,
                   response>>

\* optimize_drawing_path, 0 or 1 segment: returned as it is.
SegmentsTrivial ==
    /\ pc = "call"
    /\ kind = "segments"
    /\ ReturnedAsGiven(segments)
    /\ result' = optimize_drawing_path(segments, start_point)[1]
    /\ stats' = optimize_drawing_path(segments, start_point)[2]
    /\ pc' = "done"
    /\ UNCHANGED outsideOptimizer
    /\ UNCHANGED <<entry, kind, request_lines, segments, polylines, start_point,
                   remaining, ordered, current_pos, total_drawing, total_travel,
                   response>>

\* optimize_drawing_path, 2 or more segments: _greedy_optimize up to its loop.
SegmentsGreedyStart ==
    /\ pc = "call"
    /\ kind = "segments"
    /\ ~ReturnedAsGiven(segments)
    /\ SetLoopState(GreedyStart(segments, start_point))
    /\ pc' = "greedy"
    /\ UNCHANGED outsideOptimizer
    /\ UNCHANGED <<entry, kind, request_lines, segments, polylines, start_point,
                   result, stats, response>>

\* One iteration of "while remaining:" of _greedy_optimize.
SegmentsGreedyStep ==
    /\ pc = "greedy"
    /\ kind = "segments"
    /\ remaining # <<>>
    /\ SetLoopState(GreedyIterate(LoopState))
    /\ UNCHANGED outsideOptimizer
    /\ UNCHANGED <<entry, kind, request_lines, segments, polylines, start_point,
                   pc, result, stats, response>>

\* The return of _greedy_optimize.
SegmentsGreedyReturn ==
    /\ pc = "greedy"
    /\ kind = "segments"
    /\ remaining = <<>>
    /\ result' = ordered
    /\ stats' = GreedyStats(LoopState)
    /\ pc' = "done"
    /\ UNCHANGED outsideOptimizer
    /\ UNCHANGED <<entry, kind, request_lines, segments, polylines, start_point,
                   remaining, ordered, current_pos, total_drawing, total_travel,
                   response>>

Next ==
    \/ OptimizePathRequest
    \/ OptimizePathRespond
    \/ SegmentsTrivial
    \/ SegmentsGreedyStart
    \/ SegmentsGreedyStep
    \/ SegmentsGreedyReturn
    \/ OptimizePolylinesRequest
    \/ OptimizePolylinesRespond
    \/ PolylinesTrivial
    \/ PolylinesGreedyStart
    \/ PolylinesGreedyStep
    \/ PolylinesGreedyReturn

Spec == Init /\ [][Next]_vars

(***************************************************************************)
(* path_optimizer.py: _ortools_optimize.  The routing solver is outside    *)
(* the repository: its answer is no solution, or a route that begins at    *)
(* the depot (node 0) and goes on through endpoint nodes, none twice.      *)
(***************************************************************************)
\* The sequences of length k of distinct elements of S.
RECURSIVE DistinctSeqs(_, _)
DistinctSeqs(S, k) ==
    IF k = 0 THEN {<<>>}
    ELSE UNION {{Append(r, x) : x \in S \ {r[j] : j \in 1..Len(r)}} :
                   r \in DistinctSeqs(S, k - 1)}

\* route_nodes as read off a solution for n segments: node 0 is the depot,
\* node 2i+1 the start and node 2i+2 the end of segment i.
Routes(n) ==
    {<<0>> \o r : r \in UNION {DistinctSeqs(1..(2 * n), k) : k \in 0..(2 * n)}}

\* "while i < len(route_nodes)": the route decoded into oriented segments
\* (i is 0-based, as in the source).
RECURSIVE DecodeRoute(_, _, _, _)
DecodeRoute(segs, route_nodes, i, acc) ==
    IF ~(i < Len(route_nodes)) THEN acc
    ELSE LET node == route_nodes[i + 1]
         IN IF node = 0 THEN DecodeRoute(segs, route_nodes, i + 1, acc)
            ELSE LET seg_idx == (node - 1) \div 2
                     is_end == (node - 1) % 2 = 1
                     seg == segs[seg_idx + 1]
                 IN IF is_end
                    THEN DecodeRoute(segs, route_nodes, i + 2,
                           [ordered_segments |-> Append(acc.ordered_segments, <<seg[2], seg[1]>>),
                            total_travel |-> acc.total_travel
                                               + calculate_distance(acc.prev_pos, seg[2]),
                            total_drawing |-> acc.total_drawing
                                                + calculate_distance(seg[2], seg[1]),
                            prev_pos |-> seg[1]])
                    ELSE DecodeRoute(segs, route_nodes, i + 2,
                           [ordered_segments |-> Append(acc.ordered_segments, seg),
                            total_travel |-> acc.total_travel
                                               + calculate_distance(acc.prev_pos, seg[1]),
                            total_drawing |-> acc.total_drawing
                                                + calculate_distance(seg[1], seg[2]),
                            prev_pos |-> seg[2]])

\* nodes[0]: the depot.
Depot(segs, sp) == IF sp # None THEN sp ELSE segs[1][1]

\* The decoding of a whole route, from "i = 1" and "prev_pos = nodes[0]".
Decoded(segs, sp, route_nodes) ==
    DecodeRoute(segs, route_nodes, 1,
                [ordered_segments |-> <<>>, total_travel |-> 0, total_drawing |-> 0,
                 prev_pos |-> Depot(segs, sp)])

\* Mutant of GreedyIsBetter: the comparison the wrong way round.
GreedyIsWorse(greedy_travel, solver_travel) == greedy_travel > solver_travel

\* "if greedy_stats['total_travel_length_mm'] < total_travel".
GreedyIsBetter(greedy_travel, solver_travel) == greedy_travel < solver_travel

\* _ortools_optimize after SolveWithParameters: <<ordered, stats>>.
ortools_optimize(segs, sp, sol) ==
    IF sol = None THEN greedy_optimize(segs, sp)
    ELSE LET dec == Decoded(segs, sp, sol)
             greedy == greedy_optimize(segs, sp)
         IN IF Len(dec.ordered_segments) # Len(segs) THEN greedy
            ELSE IF GreedyIsBetter(greedy[2].total_travel_length_mm, dec.total_travel)
                 THEN greedy
                 ELSE <<dec.ordered_segments,
                        [total_drawing_length_mm |-> dec.total_drawing,
                         total_travel_length_mm |-> dec.total_travel,
                         num_pen_lifts |-> Len(dec.ordered_segments) - 1,
                         optimization_applied |-> TRUE,
                         method |-> "ortools_tsp"]>>

\* _ortools_optimize called with at least one segment, no segment twice,
\* with or without a start point.
InitOrtools ==
    /\ entry = "ortools"
    /\ kind = "segments"
    /\ request_lines = <<>>
    /\ segments \in UNION {DistinctSeqs(RequestLines, k) : k \in 1..MaxRouted}
    /\ \A i \in 1..Len(segments) : IsKept(segments[i])
    /\ polylines = <<>>
    /\ start_point \in {None, <<0, 4>>}
    /\ pc = "call"
    /\ NoLoopState
    /\ result = None
    /\ stats = None
    /\ response = None
    /\ SolverIdle
    /\ BatchIdle
    /\ TimeoutIdle
    /\ GeometryIdle
    /\ PresetsIdle
    /\ PenTypesIdle
    /\ ProjectsIdle

\* _ortools_optimize, whatever the solver answers.
OrtoolsOptimize ==
    /\ pc = "call"
    /\ entry = "ortools"
    /\ \E sol \in {None} \cup Routes(Len(segments)) :
          LET returned == ortools_optimize(segments, start_point, sol)
          IN /\ solution' = sol
             /\ result' = returned[1]
             /\ stats' = returned[2]
    /\ pc' = "done"
    /\ UNCHANGED outsideSolver
    /\ UNCHANGED <<entry, kind, request_lines, segments, polylines, start_point,
                   remaining, ordered, current_pos, total_drawing, total_travel,
                   response>>

NextOrtools == OrtoolsOptimize

SpecOrtools == InitOrtools /\ [][NextOrtools]_vars

(***************************************************************************)
(* The per-polygon loops: extract_centerlines (centerline_extractor.py)    *)
(* and generate_infill_for_polygons_with_polylines (infill/utils.py).      *)
(* The geometry of a polygon is outside these loops; a polygon is          *)
(* described by its shape and by where, if anywhere, its processing stops: *)
(*   "short"   fewer than 3 outer points,                                  *)
(*   "build"   the construction of the Shapely polygon raises,             *)
(*   "tiny"    the polygon is empty or too small to be processed,          *)
(*   "extract" the pattern generator or extraction strategy raises.        *)
(***************************************************************************)
Shapes == {"A", "B"}

Faults == {"none", "short", "build", "tiny", "extract"}

PolygonData == [shape : Shapes, fault : Faults]

Methods == {"skeleton", "offset", "voronoi"}

Patterns == {"lines", "concentric"}

\* What a strategy or generator computes for a polygon it can process: one
\* stroke, named after who computed it and for which shape.
Strokes(by, poly) == <<[by |-> by, of |-> poly.shape]>>

\* The outcome of a call: an exception, or the list it returns.
Raised == [raised |-> TRUE, value |-> <<>>]

Returned(value) == [raised |-> FALSE, value |-> value]

\* _extract_single_polygon_centerlines: no exception is caught inside.
extract_single_polygon_centerlines(poly) ==
    IF poly.fault = "tiny" THEN Returned(<<>>)
    ELSE IF poly.fault = "extract" THEN Raised
    ELSE Returned(Strokes("skeleton", poly))

\* _extract_centerlines_offset: no exception is caught inside.
extract_centerlines_offset(poly) ==
    IF poly.fault = "tiny" THEN Returned(<<>>)
    ELSE IF poly.fault = "extract" THEN Raised
    ELSE Returned(Strokes("offset", poly))

\* _extract_centerlines_voronoi: empty without the library, and its own
\* try/except turns an exception into the empty list.
extract_centerlines_voronoi(poly, available) ==
    IF ~available THEN Returned(<<>>)
    ELSE IF poly.fault = "tiny" THEN Returned(<<>>)
    ELSE IF poly.fault = "extract" THEN Returned(<<>>)
    ELSE Returned(Strokes("voronoi", poly))

\* "if method == 'voronoi' and CENTERLINE_AVAILABLE: ... elif method ==
\* 'offset': ... else: ...".
SelectStrategy(m, available) ==
    IF m = "voronoi" /\ available THEN "voronoi"
    ELSE IF m = "offset" THEN "offset"
    ELSE "skeleton"

\* The body of "for poly_data in polygons" of extract_centerlines.
CenterlinesOfPolygon(poly, m, available) ==
    IF poly.fault = "short" THEN Returned(<<>>)
    ELSE IF poly.fault = "build" THEN Returned(<<>>)
    ELSE LET strategy == SelectStrategy(m, available)
         IN IF strategy = "voronoi" THEN extract_centerlines_voronoi(poly, available)
            ELSE IF strategy = "offset" THEN extract_centerlines_offset(poly)
            ELSE extract_single_polygon_centerlines(poly)

\* "use_polylines = pattern_type.lower() in ['concentric', 'zigzag']".
use_polylines(pattern) == pattern \in {"concentric", "zigzag"}

\* The body of "for poly_data in polygons" of
\* generate_infill_for_polygons_with_polylines: the strokes added to
\* all_segments and to all_polylines; its try/except catches every exception.
InfillOfPolygon(poly, pattern) ==
    IF poly.fault # "none" THEN [segments |-> <<>>, polylines |-> <<>>]
    ELSE IF use_polylines(pattern)
         THEN [segments |-> <<>>, polylines |-> Strokes(pattern, poly)]
         ELSE [segments |-> Strokes(pattern, poly), polylines |-> <<>>]

\* POST /api/infill/centerline with a list of polygons.
InitCenterlines ==
    /\ batch_op = "centerlines"
    /\ polygons \in SeqsUpTo(PolygonData, MaxBatch) \ {<<>>}
    /\ method \in Methods
    /\ pattern_type = "none"
    /\ CENTERLINE_AVAILABLE \in BOOLEAN
    /\ poly_index = 1
    /\ all_centerlines = <<>>
    /\ all_segments = <<>>
    /\ all_polylines = <<>>
    /\ batch_pc = "loop"
    /\ http_status = 0
    /\ OptimizerIdle
    /\ SolverIdle
    /\ TimeoutIdle
    /\ GeometryIdle
    /\ PresetsIdle
    /\ PenTypesIdle
    /\ ProjectsIdle

\* POST /api/infill/generate with a list of polygons.
InitInfill ==
    /\ batch_op = "infill"
    /\ polygons \in SeqsUpTo(PolygonData, MaxBatch) \ {<<>>}
    /\ method = "none"
    /\ pattern_type \in Patterns
    /\ CENTERLINE_AVAILABLE = FALSE
    /\ poly_index = 1
    /\ all_centerlines = <<>>
    /\ all_segments = <<>>
    /\ all_polylines = <<>>
    /\ batch_pc = "loop"
    /\ http_status = 0
    /\ OptimizerIdle
    /\ SolverIdle
    /\ TimeoutIdle
    /\ GeometryIdle
    /\ PresetsIdle
    /\ PenTypesIdle
    /\ ProjectsIdle

InitBatch == InitCenterlines \/ InitInfill

\* One polygon of extract_centerlines: its polylines are appended, or the
\* exception of its strategy leaves the function.
CenterlineStep ==
    /\ batch_pc = "loop"
    /\ batch_op = "centerlines"
    /\ poly_index <= Len(polygons)
    /\ LET outcome == CenterlinesOfPolygon(polygons[poly_index], method, CENTERLINE_AVAILABLE)
       IN IF outcome.raised
          THEN /\ batch_pc' = "raised"
               /\ UNCHANGED <<poly_index, all_centerlines>>
          ELSE /\ all_centerlines' = Append(all_centerlines, outcome.value)
               /\ poly_index' = poly_index + 1
               /\ UNCHANGED batch_pc
    /\ UNCHANGED <<batch_op, polygons, method, pattern_type, CENTERLINE_AVAILABLE,
                   all_segments, all_polylines, http_status>>
    /\ UNCHANGED outsideBatch

\* extract_centerlines returns after the last polygon.
CenterlineReturn ==
    /\ batch_pc = "loop"
    /\ batch_op = "centerlines"
    /\ poly_index > Len(polygons)
    /\ batch_pc' = "returned"
    /\ UNCHANGED <<batch_op, polygons, method, pattern_type, CENTERLINE_AVAILABLE,
                   poly_index, all_centerlines, all_segments, all_polylines, http_status>>
    /\ UNCHANGED outsideBatch

\* extract_centerline answers: the centerlines, or "except Exception" -> 500.
CenterlineRespond ==
    /\ batch_op = "centerlines"
    /\ batch_pc \in {"returned", "raised"}
    /\ http_status' = IF batch_pc = "raised" THEN 500 ELSE 200
    /\ batch_pc' = "responded"
    /\ UNCHANGED <<batch_op, polygons, method, pattern_type, CENTERLINE_AVAILABLE,
                   poly_index, all_centerlines, all_segments, all_polylines>>
    /\ UNCHANGED outsideBatch

\* One polygon of generate_infill_for_polygons_with_polylines.
InfillStep ==
    /\ batch_pc = "loop"
    /\ batch_op = "infill"
    /\ poly_index <= Len(polygons)
    /\ LET added == InfillOfPolygon(polygons[poly_index], pattern_type)
       IN /\ all_segments' = all_segments \o added.segments
          /\ all_polylines' = all_polylines \o added.polylines
    /\ poly_index' = poly_index + 1
    /\ UNCHANGED <<batch_op, polygons, method, pattern_type, CENTERLINE_AVAILABLE,
                   all_centerlines, batch_pc, http_status>>
    /\ UNCHANGED outsideBatch

\* generate_infill_for_polygons_with_polylines returns both lists.
InfillReturn ==
    /\ batch_pc = "loop"
    /\ batch_op = "infill"
    /\ poly_index > Len(polygons)
    /\ batch_pc' = "returned"
    /\ UNCHANGED <<batch_op, polygons, method, pattern_type, CENTERLINE_AVAILABLE,
                   poly_index, all_centerlines, all_segments, all_polylines, http_status>>
    /\ UNCHANGED outsideBatch

\* generate_infill answers with the lines and polylines.
InfillRespond ==
    /\ batch_op = "infill"
    /\ batch_pc = "returned"
    /\ http_status' = 200
    /\ batch_pc' = "responded"
    /\ UNCHANGED <<batch_op, polygons, method, pattern_type, CENTERLINE_AVAILABLE,
                   poly_index, all_centerlines, all_segments, all_polylines>>
    /\ UNCHANGED outsideBatch

NextBatch ==
    \/ CenterlineStep
    \/ CenterlineReturn
    \/ CenterlineRespond
    \/ InfillStep
    \/ InfillReturn
    \/ InfillRespond

SpecBatch == InitBatch /\ [][NextBatch]_vars

(***************************************************************************)
(* Properties of the path order optimizer.                                 *)
(***************************************************************************)
\* The items handed to the optimizer.
InputItems == IF kind = "segments" THEN segments ELSE polylines

\* b is the ring a begun at another vertex.
IsRotationOf(a, b) ==
    /\ Len(b) = Len(a)
    /\ \E k \in 0..(Len(a) - 2) :
          \A i \in 1..Len(a) : b[i] = a[((i - 1 + k) % (Len(a) - 1)) + 1]

\* b is a up to orientation: a segment or open polyline possibly reversed,
\* a closed ring possibly rotated.
SameUpToOrientation(a, b) ==
    \/ b = a
    \/ /\ a[1] # a[Len(a)]
       /\ Len(b) = Len(a)
       /\ \A i \in 1..Len(a) : b[i] = a[Len(a) + 1 - i]
    \/ /\ kind = "segments"
       /\ b = <<a[2], a[1]>>
    \/ /\ kind = "polylines"
       /\ a[1] = a[Len(a)]
       /\ IsRotationOf(a, b)

\* now holds the items of input, each once, up to orientation.
SameItems(input, now) ==
    /\ Len(now) = Len(input)
    /\ \E pi \in Permutations(1..Len(input)) :
          \A i \in 1..Len(input) : SameUpToOrientation(input[i], now[pi[i]])

\* C1: in the greedy loop of optimizeSegments and optimizePolylines (N >= 2
\* items) the items in ordered together with those in remaining are exactly
\* the input items, each once, up to orientation; on return ordered holds
\* N items and remaining is empty.
C1_NoItemLostOrDuplicated ==
    /\ pc = "greedy" => SameItems(InputItems, ordered \o remaining)
    /\ (pc \in {"done", "responded"} /\ Len(InputItems) >= 2) =>
          /\ remaining = <<>>
          /\ Len(result) = Len(InputItems)
          /\ Len(ordered) = Len(InputItems)
          /\ SameItems(InputItems, result)

\* C1 witness: in the middle of a polyline run a ring has been rotated and
\* another item is still waiting.
C1_Witness ==
    /\ pc = "greedy"
    /\ kind = "polylines"
    /\ remaining # <<>>
    /\ \E i \in 1..Len(ordered) :
          /\ ordered[i][1] = ordered[i][Len(ordered[i])]
          /\ \A j \in 1..Len(polylines) : polylines[j] # ordered[i]

RECURSIVE SumOfLengths(_)
SumOfLengths(segs) ==
    IF segs = <<>> THEN 0
    ELSE calculate_distance(segs[1][1], segs[1][2]) + SumOfLengths(Tail(segs))

\* The list in the opposite order with every segment turned round.
Flipped(segs) == [i \in 1..Len(segs) |-> <<segs[Len(segs) + 1 - i][2], segs[Len(segs) + 1 - i][1]>>]

\* C2: the total drawing length reported by optimizeSegments is the sum of
\* the lengths of the input segments, whatever the input order, the
\* orientation of the segments and the start point (every order, orientation
\* and start point is an input of the model; the list in the opposite order
\* with every segment turned round gives the same total).
C2_DrawingLengthIsSum ==
    (pc = "done" /\ kind = "segments") =>
        /\ stats.total_drawing_length_mm = SumOfLengths(segments)
        /\ \A sp \in {start_point, None} :
              optimize_drawing_path(Flipped(segments), sp)[2].total_drawing_length_mm
                  = stats.total_drawing_length_mm

\* C2 witness: three segments of different lengths, reordered and one of
\* them reversed.
C2_Witness ==
    /\ pc = "done"
    /\ kind = "segments"
    /\ Len(segments) = 3
    /\ result[1] # segments[1]
    /\ \E i \in 1..3 : \A j \in 1..3 : result[i] # segments[j]
    /\ stats.total_travel_length_mm > 0
    /\ stats.total_drawing_length_mm = 12

\* C3: optimizing the output of optimizeSegments again, with the same start
\* point, does not give a larger total travel length.
C3_ReoptimizeNotWorse ==
    (pc = "done" /\ kind = "segments") =>
        optimize_drawing_path(result, start_point)[2].total_travel_length_mm
            <= stats.total_travel_length_mm

\* C3 witness: a run of three segments that met a tie between equidistant
\* endpoints, reordered its input and paid travel.
C3_Witness ==
    /\ pc = "done"
    /\ kind = "segments"
    /\ Len(segments) = 3
    /\ result # segments
    /\ stats.total_travel_length_mm > 0
    /\ start_point = <<0, 0>>
    /\ \E i, j \in 1..3 :
          /\ i # j
          /\ calculate_distance(start_point, segments[i][1])
               = calculate_distance(start_point, segments[j][2])
          /\ \A m \in 1..3 :
                /\ calculate_distance(start_point, segments[m][1])
                     >= calculate_distance(start_point, segments[i][1])
                /\ calculate_distance(start_point, segments[m][2])
                     >= calculate_distance(start_point, segments[i][1])

\* A call of optimizeSegments on the chain [0,1], ..., [k-1,k] from one of
\* its extreme ends.
IsChainCall ==
    /\ kind = "segments"
    /\ Len(segments) >= 1
    /\ segments \in ChainInputs(Len(segments))
    /\ start_point \in {<<0, 0>>, <<Len(segments), 0>>}

\* The chain of k unit segments drawn from the end sp, each away from sp.
ChainFrom(sp, k) ==
    [i \in 1..k |->
        IF sp = <<0, 0>> THEN <<(<<i - 1, 0>>), (<<i, 0>>)>>
        ELSE <<(<<k - i + 1, 0>>), (<<k - i, 0>>)>>]

ChainIsDrawnInOrder ==
    /\ result = ChainFrom(start_point, Len(segments))
    /\ stats.total_travel_length_mm = 0

\* C4 as stated: for every k >= 1 the chain comes back in order of increasing
\* distance from the start point, each segment oriented away from it, with
\* total travel 0.
C4_ChainAnyLength ==
    (pc = "done" /\ IsChainCall) => ChainIsDrawnInOrder

\* C4 amended: the same for chains of k >= 2 segments.
C4_ChainOfTwoOrMore ==
    (pc = "done" /\ IsChainCall /\ Len(segments) >= 2) => ChainIsDrawnInOrder

\* C4 witness: the chain of three, given out of order with a segment pointing
\* towards the start point, started at its far end.
C4_Witness ==
    /\ pc = "done"
    /\ IsChainCall
    /\ Len(segments) = 3
    /\ start_point = <<3, 0>>
    /\ segments[1] = <<(<<1, 0>>), (<<2, 0>>)>>
    /\ segments[2] = <<(<<0, 0>>), (<<1, 0>>)>>
    /\ result[1] = <<(<<3, 0>>), (<<2, 0>>)>>

\* C5: with 0 items the result is empty with drawing length 0, travel 0 and
\* 0 pen lifts; with 1 item the item is returned as it was given, travel is 0
\* and optimization_applied is false, whatever the start point.
C5_DegenerateSizes ==
    (pc = "done") =>
        /\ Len(InputItems) = 0 =>
              /\ result = <<>>
              /\ stats.total_drawing_length_mm = 0
              /\ stats.total_travel_length_mm = 0
              /\ stats.num_pen_lifts = 0
        /\ Len(InputItems) = 1 =>
              /\ result = InputItems
              /\ stats.total_travel_length_mm = 0
              /\ stats.optimization_applied = FALSE

\* C5 witness: a single segment whose far end is where the start point lies.
C5_Witness ==
    /\ pc = "done"
    /\ kind = "segments"
    /\ Len(segments) = 1
    /\ start_point = segments[1][2]
    /\ result = segments

StatsKeys ==
    {"total_drawing_length_mm", "total_travel_length_mm", "num_pen_lifts",
     "optimization_applied", "method"}

\* C6: every optimization call returns all five statistics, and the method
\* name in the response of optimize-path and optimize-polylines is the name
\* of a method, never a placeholder.
C6_AllFiveStatistics ==
    /\ pc = "done" => StatsKeys \subseteq DOMAIN stats
    /\ pc = "responded" => response.optimization_method \in {"greedy", "ortools_tsp"}

\* The lines of the request that are not degenerate.
ProperLines == {i \in 1..Len(request_lines) : request_lines[i][1] # request_lines[i][2]}

\* C7: optimize-path removes every segment whose start equals its end before
\* ordering; the output has as many segments as the request has
\* non-degenerate ones, and a request of degenerate segments only is
\* answered with the empty list and zero statistics.
C7_DegenerateSegmentsFiltered ==
    (entry = "router" /\ kind = "segments") =>
        /\ \A i \in 1..Len(segments) : segments[i][1] # segments[i][2]
        /\ \A i \in 1..Len(remaining) : remaining[i][1] # remaining[i][2]
        /\ \A i \in 1..Len(ordered) : ordered[i][1] # ordered[i][2]
        /\ pc \in {"call", "greedy", "done"} => Len(segments) = Cardinality(ProperLines)
        /\ pc = "responded" =>
              /\ Len(response.ordered_lines) = Cardinality(ProperLines)
              /\ \A i \in 1..Len(response.ordered_lines) :
                    response.ordered_lines[i][1] # response.ordered_lines[i][2]
              /\ ProperLines = {} =>
                    /\ response.ordered_lines = <<>>
                    /\ response.total_drawing_length_mm = 0
                    /\ response.total_travel_length_mm = 0
                    /\ response.num_pen_lifts = 0

\* C7 witness: a request of three lines, the middle one degenerate, answered
\* with the two others.
C7_Witness ==
    /\ pc = "responded"
    /\ entry = "router"
    /\ kind = "segments"
    /\ Len(request_lines) = 3
    /\ request_lines[2][1] = request_lines[2][2]
    /\ Len(response.ordered_lines) = 2

\* The pen-up travel of drawing the list segs in its order from pos.
RECURSIVE TravelOf(_, _)
TravelOf(segs, pos) ==
    IF segs = <<>> THEN 0
    ELSE calculate_distance(pos, segs[1][1]) + TravelOf(Tail(segs), segs[1][2])

\* C8: whatever the solver answers (no solution, a route covering fewer
\* segments than the input, a complete route of any travel length),
\* _ortools_optimize returns a total travel not above that of greedy on the
\* same input, and the method it reports is the strategy whose ordering it
\* returns.
C8_NeverWorseThanGreedy ==
    (pc = "done" /\ entry = "ortools") =>
        LET greedy == greedy_optimize(segments, start_point)
        IN /\ stats.total_travel_length_mm <= greedy[2].total_travel_length_mm
           /\ stats.total_travel_length_mm
                = TravelOf(result, IF start_point # None THEN start_point ELSE segments[1][1])
           /\ "method" \in DOMAIN stats
           /\ stats.method \in {"greedy", "ortools_tsp"}
           /\ stats.method = "greedy" => result = greedy[1]
           /\ stats.method = "ortools_tsp" =>
                 /\ solution # None
                 /\ result = Decoded(segments, start_point, solution).ordered_segments

\* C8 witness: the solver's complete route costs more travel than greedy,
\* and the greedy ordering is what comes back.
C8_Witness ==
    /\ pc = "done"
    /\ entry = "ortools"
    /\ solution # None
    /\ Len(solution) = 2 * Len(segments) + 1
    /\ Len(segments) = 2
    /\ Decoded(segments, start_point, solution).total_travel
         > stats.total_travel_length_mm
    /\ stats.method = "greedy"

(***************************************************************************)
(* Properties of the per-polygon loops.                                    *)
(***************************************************************************)
\* The computation for this polygon raises an internal exception.
FailsInside(poly) == poly.fault \in {"build", "extract"}

\* What a polygon contributes to the centerlines when it is the only one.
CenterlinesAlone(poly) ==
    IF FailsInside(poly) THEN <<>>
    ELSE CenterlinesOfPolygon(poly, method, CENTERLINE_AVAILABLE).value

RECURSIVE InfillAlone(_, _)
InfillAlone(polys, field) ==
    IF polys = <<>> THEN <<>>
    ELSE (IF FailsInside(polys[1]) THEN <<>>
          ELSE InfillOfPolygon(polys[1], pattern_type)[field])
         \o InfillAlone(Tail(polys), field)

\* C9: in generateInfill and extractCenterlines a polygon whose computation
\* raises contributes an empty result, every other polygon contributes what
\* it contributes alone, and the call as a whole does not fail.
C9_FailureIsolatedPerPolygon ==
    /\ batch_pc # "raised"
    /\ http_status # 500
    /\ (batch_op = "centerlines" /\ batch_pc \in {"returned", "responded"}) =>
          /\ Len(all_centerlines) = Len(polygons)
          /\ \A i \in 1..Len(polygons) : all_centerlines[i] = CenterlinesAlone(polygons[i])
    /\ (batch_op = "infill" /\ batch_pc \in {"returned", "responded"}) =>
          /\ all_segments = InfillAlone(polygons, "segments")
          /\ all_polylines = InfillAlone(polygons, "polylines")

\* C10: with method = voronoi and the medial-axis library unavailable every
\* polygon's result is the empty list; no other strategy runs in its place.
C10_VoronoiUnavailableGivesEmpty ==
    (batch_op = "centerlines" /\ method = "voronoi" /\ ~CENTERLINE_AVAILABLE) =>
        /\ batch_pc # "raised"
        /\ \A i \in 1..Len(all_centerlines) : all_centerlines[i] = <<>>

\* C11: a polygon with fewer than 3 outer points is fatal to generateInfill
\* and extractCenterlines: the call does not return and no geometry is
\* produced for any polygon of the batch.
C11_MalformedInputIsFatal ==
    (\E i \in 1..Len(polygons) : polygons[i].fault = "short") =>
        /\ batch_pc # "returned"
        /\ http_status # 200
        /\ \A i \in 1..Len(all_centerlines) : all_centerlines[i] = <<>>
        /\ all_segments = <<>>
        /\ all_polylines = <<>>

(***************************************************************************)
(* main.py: TimeoutMiddleware.  The application runs on one event loop.    *)
(* A handler of routers/infill.py is a coroutine whose body computes       *)
(* without awaiting, so from its first instruction to its return it is one *)
(* step of the loop; the timer of asyncio.wait_for and every other request *)
(* are callbacks that the loop runs between steps.  Time is in seconds     *)
(* since the request arrived.                                              *)
(***************************************************************************)
REQUEST_TIMEOUT_SECONDS == 300

\* How long past the timeout a handler that does return may compute.
MaxOverrun == 2

\* A handler that never returns (unbounded iteration).
Unbounded == -1

\* The instants the model looks at.
Instants == {1} \cup ((REQUEST_TIMEOUT_SECONDS - 1)..(REQUEST_TIMEOUT_SECONDS + MaxOverrun))

\* The geometry requests: generate_infill, optimize_path, extract_centerline.
Endpoints == {"generate", "optimize-path", "centerline"}

\* A geometry request arrives; its handler needs `work` seconds.
InitTimeout ==
    /\ clock = 0
    /\ endpoint \in Endpoints
    /\ work \in Instants \cup {Unbounded}
    /\ loop_pc = "dispatch"
    /\ timer = "unset"
    /\ reply = 0
    /\ other = "none"
    /\ OptimizerIdle
    /\ SolverIdle
    /\ BatchIdle
    /\ GeometryIdle
    /\ PresetsIdle
    /\ PenTypesIdle
    /\ ProjectsIdle

\* dispatch: asyncio.wait_for(call_next(request), timeout=...) arms the
\* timer and schedules the handler.
Dispatch ==
    /\ loop_pc = "dispatch"
    /\ timer' = "armed"
    /\ loop_pc' = "ready"
    /\ UNCHANGED <<clock, endpoint, work, reply, other>>
    /\ UNCHANGED outsideTimeout

\* The loop starts the handler, which computes synchronously.
HandlerStart ==
    /\ loop_pc = "ready"
    /\ loop_pc' = "computing"
    /\ UNCHANGED <<clock, endpoint, work, timer, reply, other>>
    /\ UNCHANGED outsideTimeout

\* Time passes while the handler computes; the loop runs nothing else.
Compute ==
    /\ loop_pc = "computing"
    /\ \E t \in Instants :
          /\ t > clock
          /\ work # Unbounded => t <= work
          /\ clock' = t
    /\ UNCHANGED <<endpoint, work, loop_pc, timer, reply, other>>
    /\ UNCHANGED outsideTimeout

\* The handler returns its result and the loop is free again.
HandlerReturn ==
    /\ loop_pc = "computing"
    /\ work # Unbounded
    /\ clock = work
    /\ loop_pc' = "returned"
    /\ UNCHANGED <<clock, endpoint, work, timer, reply, other>>
    /\ UNCHANGED outsideTimeout

\* The loop runs the timer callback of wait_for: "except
\* asyncio.TimeoutError" answers 504.
Timeout ==
    /\ loop_pc \in {"ready", "returned"}
    /\ timer = "armed"
    /\ clock >= REQUEST_TIMEOUT_SECONDS
    /\ timer' = "fired"
    /\ reply' = 504
    /\ loop_pc' = "done"
    /\ UNCHANGED <<clock, endpoint, work, other>>
    /\ UNCHANGED outsideTimeout

\* The loop delivers the handler's result through call_next: wait_for
\* returns it and cancels the timer.  After a late return the order of this
\* callback and the timer's is decided inside asyncio and Starlette.
Respond ==
    /\ loop_pc = "returned"
    /\ timer = "armed"
    /\ timer' = "cancelled"
    /\ reply' = 200
    /\ loop_pc' = "done"
    /\ UNCHANGED <<clock, endpoint, work, other>>
    /\ UNCHANGED outsideTimeout

\* Another request reaches the server.
OtherArrives ==
    /\ other = "none"
    /\ other' = "waiting"
    /\ UNCHANGED <<clock, endpoint, work, loop_pc, timer, reply>>
    /\ UNCHANGED outsideTimeout

\* The loop, when it is not inside a handler, answers the other request.
OtherAnswer ==
    /\ other = "waiting"
    /\ loop_pc # "computing"
    /\ other' = "answered"
    /\ UNCHANGED <<clock, endpoint, work, loop_pc, timer, reply>>
    /\ UNCHANGED outsideTimeout

NextTimeout ==
    \/ Dispatch
    \/ HandlerStart
    \/ Compute
    \/ HandlerReturn
    \/ Timeout
    \/ Respond
    \/ OtherArrives
    \/ OtherAnswer

SpecTimeout == InitTimeout /\ [][NextTimeout]_vars

\* C12: once REQUEST_TIMEOUT_SECONDS have elapsed with the handler of a
\* geometry request still computing, the caller has the 504 timeout answer
\* and no other request is left waiting on the service.
C12_TimeoutBoundsEveryRequest ==
    (loop_pc = "computing" /\ clock > REQUEST_TIMEOUT_SECONDS) =>
        /\ reply = 504
        /\ other # "waiting"

(***************************************************************************)
(* Geometry (services/geometry_utils.py, services/infill/patterns.py).     *)
(* Coordinates and lengths are exact rationals [n |-> numerator,           *)
(* d |-> denominator > 0] in lowest terms; the source computes with        *)
(* floating-point numbers.  Polygons are convex, listed counter-clockwise, *)
(* with edge directions whose length is rational, so that Shapely's        *)
(* buffer and intersection can be computed exactly.                        *)
(***************************************************************************)
Abs(k) == IF k < 0 THEN -k ELSE k

RECURSIVE GCD(_, _)
GCD(a, b) == IF b = 0 THEN a ELSE GCD(b, a % b)

\* The rational n/d (d # 0) in lowest terms.
Q(n, d) ==
    LET g == GCD(Abs(n), Abs(d))
        s == IF d < 0 THEN -1 ELSE 1
    IN [n |-> (s * n) \div g, d |-> (s * d) \div g]

QInt(k) == [n |-> k, d |-> 1]

QAdd(a, b) == Q(a.n * b.d + b.n * a.d, a.d * b.d)

QSub(a, b) == Q(a.n * b.d - b.n * a.d, a.d * b.d)

QMul(a, b) == Q(a.n * b.n, a.d * b.d)

QDiv(a, b) == Q(a.n * b.d, a.d * b.n)

QNeg(a) == [n |-> -a.n, d |-> a.d]

QLess(a, b) == a.n * b.d < b.n * a.d

QLeq(a, b) == a.n * b.d <= b.n * a.d

QMin(a, b) == IF QLess(b, a) THEN b ELSE a

QMax(a, b) == IF QLess(a, b) THEN b ELSE a

\* math.ceil of a rational, an integer.
QCeil(a) == -((-a.n) \div a.d)

\* math.floor of a rational, an integer.
QFloor(a) == a.n \div a.d

\* Points and vectors with rational coordinates.
Pt(x, y) == <<QInt(x), QInt(y)>>

VSub(p, q) == <<QSub(p[1], q[1]), QSub(p[2], q[2])>>

VAdd(p, q) == <<QAdd(p[1], q[1]), QAdd(p[2], q[2])>>

VScale(v, k) == <<QMul(v[1], k), QMul(v[2], k)>>

Dot(p, q) == QAdd(QMul(p[1], q[1]), QMul(p[2], q[2]))

\* The least and the greatest of a non-empty sequence of rationals.
RECURSIVE QMinOf(_)
QMinOf(qs) == IF Len(qs) = 1 THEN qs[1] ELSE QMin(qs[1], QMinOf(Tail(qs)))

RECURSIVE QMaxOf(_)
QMaxOf(qs) == IF Len(qs) = 1 THEN qs[1] ELSE QMax(qs[1], QMaxOf(Tail(qs)))

\* Shapely's Polygon(): the empty polygon.
EmptyPolygon == [ring |-> <<>>]

is_empty(polygon) == polygon.ring = <<>>

\* Shapely's Polygon(coords) for a valid outline: exterior.coords is the
\* ring, closed ("if coords[0] != coords[-1]: coords.append(coords[0])").
PolygonOf(coords) ==
    [ring |-> IF coords[1] # coords[Len(coords)] THEN Append(coords, coords[1])
              ELSE coords]

\* polygon.bounds: (minx, miny, maxx, maxy).
Bounds(polygon) ==
    LET xs == [i \in 1..Len(polygon.ring) |-> polygon.ring[i][1]]
        ys == [i \in 1..Len(polygon.ring) |-> polygon.ring[i][2]]
    IN [minx |-> QMinOf(xs), miny |-> QMinOf(ys),
        maxx |-> QMaxOf(xs), maxy |-> QMaxOf(ys)]

\* The number of corners of a polygon that is not empty.
NumCorners(polygon) == Len(polygon.ring) - 1

\* The unit normal of the edge p -> q that points into a counter-clockwise
\* polygon.
\* The integer vector <<x, y>> turned a quarter to the left and scaled to
\* length 1.
UnitLeftOf(x, y) == <<Q(-y, ISqrt(x * x + y * y)), Q(x, ISqrt(x * x + y * y))>>

\* The shortest integer vector in the direction of <<x, y>>.
Primitive(x, y) == <<x \div GCD(Abs(x), Abs(y)), y \div GCD(Abs(x), Abs(y))>>

\* An integer vector in the direction of the rational vector v.
IntegerDirection(v) == Primitive(v[1].n * v[2].d, v[2].n * v[1].d)

UnitLeft(u) == UnitLeftOf(u[1], u[2])

InwardNormal(p, q) == UnitLeft(IntegerDirection(VSub(q, p)))

\* The point where the lines n1 . X = k1 and n2 . X = k2 meet.
Meet(n1, k1, n2, k2) ==
    LET det == QSub(QMul(n1[1], n2[2]), QMul(n2[1], n1[2]))
    IN <<QDiv(QSub(QMul(k1, n2[2]), QMul(k2, n1[2])), det),
         QDiv(QSub(QMul(n1[1], k2), QMul(n2[1], k1)), det)>>

\* Shapely's polygon.buffer(dist, join_style="mitre") for a convex polygon
\* and dist <= 0: every edge moves inward by -dist; the result is empty as
\* soon as an edge would vanish or turn round.
\* The inward unit normals of the edges of the polygon.
EdgeNormals(polygon) ==
    [j \in 1..NumCorners(polygon) |-> InwardNormal(polygon.ring[j], polygon.ring[j + 1])]

\* The offset edge j is the line normals[j] . X = levels[j].
EdgeLevels(polygon, normals, dist) ==
    [j \in 1..NumCorners(polygon) |-> QSub(Dot(normals[j], polygon.ring[j]), dist)]

\* Corner j of the offset polygon: where the offset edges before and after
\* corner j of the polygon meet.
OffsetCorners(m, normals, levels) ==
    [j \in 1..m |-> Meet(normals[IF j = 1 THEN m ELSE j - 1],
                         levels[IF j = 1 THEN m ELSE j - 1], normals[j], levels[j])]

\* Every edge of the offset polygon still runs the way the polygon's does.
KeepsEdges(polygon, m, W) ==
    \A j \in 1..m :
        QLess(QInt(0), Dot(VSub(W[IF j = m THEN 1 ELSE j + 1], W[j]),
                           VSub(polygon.ring[j + 1], polygon.ring[j])))

\* The polygon of the offset corners, empty as soon as an edge would vanish
\* or turn round.
BufferedTo(polygon, m, W) ==
    IF KeepsEdges(polygon, m, W)
    THEN [ring |-> [j \in 1..(m + 1) |-> IF j = m + 1 THEN W[1] ELSE W[j]]]
    ELSE EmptyPolygon

BufferAlong(polygon, normals, dist) ==
    BufferedTo(polygon, NumCorners(polygon),
               OffsetCorners(NumCorners(polygon), normals, EdgeLevels(polygon, normals, dist)))

Buffer(polygon, dist) ==
    IF is_empty(polygon) THEN EmptyPolygon
    ELSE BufferAlong(polygon, EdgeNormals(polygon), dist)

\* Mutant of offset_polygon: the offset applied with the wrong sign.
\* "if result.is_empty: return Polygon()", else "return result".
EmptyOrResult(buffered) == IF is_empty(buffered) THEN EmptyPolygon ELSE buffered

offset_polygon_outward(polygon, distance) ==
    IF QLeq(distance, QInt(0)) THEN polygon
    ELSE EmptyOrResult(Buffer(polygon, distance))

\* offset_polygon(polygon, distance).
offset_polygon(polygon, distance) ==
    IF QLeq(distance, QInt(0)) THEN polygon
    ELSE EmptyOrResult(Buffer(polygon, QNeg(distance)))

\* The largest side of a square, in millimetres.
MaxSide == 4

\* The axis-aligned square of side s with a corner at the origin.
Square(s) == PolygonOf(<<Pt(0, 0), Pt(s, 0), Pt(s, s), Pt(0, s)>>)

\* The right triangle with legs a and b along the axes.
RightTriangle(a, b) == PolygonOf(<<Pt(0, 0), Pt(a, 0), Pt(0, b)>>)

Squares == {Square(s) : s \in 1..MaxSide}

Triangles == {RightTriangle(3, 4), RightTriangle(4, 3)}

\* A rectangle that is not a square.
Rectangles == {PolygonOf(<<Pt(0, 0), Pt(MaxSide + 1, 0), Pt(MaxSide + 1, 2), Pt(0, 2)>>)}

\* Offset distances: halves from -1 to MaxSide.
Distances == {Q(k, 2) : k \in (-2)..(2 * MaxSide)}

\* offset_polygon is called with a polygon and a distance.
InitOffset ==
    /\ geom_op = "offset_polygon"
    /\ geom_args \in [polygon : Squares \cup Triangles \cup Rectangles, distance : Distances]
    /\ geom_out = None

\* offset_polygon returns.
ApplyOffset ==
    /\ geom_op = "offset_polygon"
    /\ geom_out = None
    /\ geom_out' = offset_polygon(geom_args.polygon, geom_args.distance)
    /\ UNCHANGED <<geom_op, geom_args>>
    /\ UNCHANGED outsideGeometry

\* The smaller side of the bounding box.
Width(polygon) ==
    LET b == Bounds(polygon)
    IN QMin(QSub(b.maxx, b.minx), QSub(b.maxy, b.miny))

\* C17: offsetInward by d <= 0 returns the polygon unchanged, and by d
\* greater than half the polygon's width returns the empty polygon.
C17_OffsetInward ==
    (geom_op = "offset_polygon" /\ geom_out # None) =>
        /\ QLeq(geom_args.distance, QInt(0)) => geom_out = geom_args.polygon
        /\ QLess(Width(geom_args.polygon), QMul(QInt(2), geom_args.distance)) =>
              /\ is_empty(geom_out)
              /\ geom_out = EmptyPolygon

\* C17 witness: a triangle offset by more than half its width, and empty.
C17_Witness ==
    /\ geom_op = "offset_polygon"
    /\ geom_out # None
    /\ geom_args.polygon \in Triangles
    /\ QLess(Width(geom_args.polygon), QMul(QInt(2), geom_args.distance))
    /\ is_empty(geom_out)

(***************************************************************************)
(* services/infill/patterns.py: InfillGenerator and LineInfill.            *)
(***************************************************************************)
\* "self.density = max(0.1, density)".
MinDensity == Q(1, 10)

\* The cap of the safety check "num_lines > 10000".
MaxNumLines == 10000

\* (cos, sin) of the angle.  An angle is given in whole degrees; 37, 53,
\* 127 and 143 stand for the angles of the 3-4-5 triangle (36.87..., 53.13...
\* and their supplements), whose sine and cosine are rational.
Direction(angle) ==
    CASE angle = 0 -> <<QInt(1), QInt(0)>>
      [] angle = 37 -> <<Q(4, 5), Q(3, 5)>>
      [] angle = 53 -> <<Q(3, 5), Q(4, 5)>>
      [] angle = 90 -> <<QInt(0), QInt(1)>>
      [] angle = 127 -> <<Q(-3, 5), Q(4, 5)>>
      [] angle = 143 -> <<Q(-4, 5), Q(3, 5)>>
      [] angle = 180 -> <<QInt(-1), QInt(0)>>
      [] angle = 270 -> <<QInt(0), QInt(-1)>>
      [] angle = 360 -> <<QInt(1), QInt(0)>>

\* InfillGenerator.__init__: the fields of the generator.
GeneratorFields(original_polygon, density, angle, outline_offset, polygon) ==
    [original_polygon |-> original_polygon,
     density |-> QMax(MinDensity, density),
     angle |-> angle,
     outline_offset |-> outline_offset,
     polygon |-> polygon,
     bounds |-> IF ~is_empty(polygon) THEN Bounds(polygon)
                ELSE [minx |-> QInt(0), miny |-> QInt(0),
                      maxx |-> QInt(0), maxy |-> QInt(0)]]

InfillGenerator(polygon, density, angle, outline_offset) ==
    GeneratorFields(polygon, density, angle, outline_offset,
                    IF QLess(QInt(0), outline_offset)
                    THEN offset_polygon(polygon, outline_offset)
                    ELSE polygon)

\* The locals of LineInfill.generate up to "num_lines = ...".
\* "np.dot(coords - center, normal)" for the corners of the ring.
Projections(ring, center, normal) ==
    [i \in 1..Len(ring) |-> Dot(VSub(ring[i], center), normal)]

\* "proj_length = proj_max - proj_min" and
\* "num_lines = int(math.ceil(proj_length / self.density))".
FrameOfRange(b, direction, normal, center, proj_min, proj_length, density) ==
    [width |-> QSub(b.maxx, b.minx), height |-> QSub(b.maxy, b.miny),
     direction |-> direction, normal |-> normal,
     center |-> center, proj_min |-> proj_min, proj_length |-> proj_length,
     num_lines |-> QCeil(QDiv(proj_length, density))]

FrameOfProjections(b, direction, normal, center, projections, density) ==
    FrameOfRange(b, direction, normal, center, QMinOf(projections),
                 QSub(QMaxOf(projections), QMinOf(projections)), density)

\* direction = (cos, sin), normal = (-sin, cos), center of the bounding box.
FrameAlong(gen, direction, normal, center) ==
    FrameOfProjections(gen.bounds, direction, normal, center,
                       Projections(gen.polygon.ring, center, normal), gen.density)

FrameOfDirection(gen, direction) ==
    FrameAlong(gen, direction, <<QNeg(direction[2]), direction[1]>>,
               <<QDiv(QAdd(gen.bounds.minx, gen.bounds.maxx), QInt(2)),
                 QDiv(QAdd(gen.bounds.miny, gen.bounds.maxy), QInt(2))>>)

ScanFrame(gen) == FrameOfDirection(gen, Direction(gen.angle))

\* The polygon leaves nothing to fill: "if self.polygon.is_empty" and
\* "if width <= 0 or height <= 0".
NothingToFill(gen) ==
    \/ is_empty(gen.polygon)
    \/ QLeq(QSub(gen.bounds.maxx, gen.bounds.minx), QInt(0))
    \/ QLeq(QSub(gen.bounds.maxy, gen.bounds.miny), QInt(0))

\* Mutant of OutOfRange: the cap is not applied.
OutOfRangeBelowOnly(num_lines) == num_lines <= 0

\* The safety check "if num_lines <= 0 or num_lines > 10000".
OutOfRange(num_lines) == num_lines <= 0 \/ num_lines > MaxNumLines

\* Mutant of LoopCount: the last scan line is left out.
LoopCountWithoutLast(num_lines) == num_lines

\* "for i in range(num_lines + 1)": how often the loop body runs.
LoopCount(num_lines) == num_lines + 1

\* The number of scan lines that LineInfill.generate builds and clips.
ScanLinesGenerated(gen) ==
    IF NothingToFill(gen) THEN 0
    ELSE IF OutOfRange(ScanFrame(gen).num_lines) THEN 0
    ELSE LoopCount(ScanFrame(gen).num_lines)

\* The least integer whose square is at least k.
CeilSqrt(k) == CHOOSE r \in 0..k : r * r >= k /\ (r = 0 \/ (r - 1) * (r - 1) < k)

\* math.sqrt(width**2 + height**2), rounded up to the next multiple of
\* 1/d where the exact root is irrational.
Diagonal(width, height) ==
    LET a == QAdd(QMul(width, width), QMul(height, height))
    IN Q(CeilSqrt(a.n * a.d), a.d)

\* The part of the parameter range [lo, hi] of the line a -> b that lies
\* on the inner side of the edges j..m of a convex polygon.
RECURSIVE ClipRange(_, _, _, _, _, _)
ClipRange(ring, j, a, b, lo, hi) ==
    IF j > Len(ring) - 1 THEN [lo |-> lo, hi |-> hi, outside |-> FALSE]
    ELSE LET edge == VSub(ring[j + 1], ring[j])
             inward == <<QNeg(edge[2]), edge[1]>>
             fa == Dot(inward, VSub(a, ring[j]))
             fb == Dot(inward, VSub(b, ring[j]))
             slope == QSub(fb, fa)
             cut == QDiv(QNeg(fa), slope)
         IN IF slope.n = 0
            THEN IF fa.n < 0 THEN [lo |-> lo, hi |-> hi, outside |-> TRUE]
                 ELSE ClipRange(ring, j + 1, a, b, lo, hi)
            ELSE IF slope.n > 0
                 THEN ClipRange(ring, j + 1, a, b, QMax(lo, cut), hi)
                 ELSE ClipRange(ring, j + 1, a, b, lo, QMin(hi, cut))

\* Mutant of clip_line_to_polygon: the line is returned without clipping.
clip_line_unclipped(line_start, line_end, polygon) ==
    IF is_empty(polygon) THEN <<>> ELSE <<<<line_start, line_end>>>>

\* clip_line_to_polygon for a convex polygon: polygon.intersection(line) is
\* empty, a single point (skipped) or one LineString of two points.
\* The point at parameter t of the line.
PointAt(line_start, line_end, t) == VAdd(line_start, VScale(VSub(line_end, line_start), t))

\* The segments of the intersection: none when it is empty or one point.
SegmentsOf(clipped, line_start, line_end) ==
    IF clipped.outside \/ QLess(clipped.hi, clipped.lo) THEN <<>>
    ELSE IF clipped.lo = clipped.hi THEN <<>>
    ELSE <<<<PointAt(line_start, line_end, clipped.lo),
             PointAt(line_start, line_end, clipped.hi)>>>>

clip_line_to_polygon(line_start, line_end, polygon) ==
    IF is_empty(polygon) THEN <<>>
    ELSE SegmentsOf(ClipRange(polygon.ring, 1, line_start, line_end, QInt(0), QInt(1)),
                    line_start, line_end)

\* The loop "for i in range(num_lines + 1)" from iteration i on: the clipped
\* segments of the scan lines i, i + 1, ...
\* "line_start = line_center - direction * diagonal" and
\* "line_end = line_center + direction * diagonal", clipped.
ClipThrough(line_center, reach, polygon) ==
    clip_line_to_polygon(VSub(line_center, reach), VAdd(line_center, reach), polygon)

\* Scan line i of the frame f, clipped: "t = i / num_lines",
\* "offset = proj_min + t * proj_length",
\* "line_center = center + normal * offset".
ClipScanLine(f, i, polygon) ==
    ClipThrough(VAdd(f.center,
                     VScale(f.normal,
                            QAdd(f.proj_min, QMul(Q(i, f.num_lines), f.proj_length)))),
                VScale(f.direction, Diagonal(f.width, f.height)), polygon)

RECURSIVE ClipScanLines(_, _, _, _)
ClipScanLines(gen, f, i, count) ==
    IF i >= count THEN <<>>
    ELSE ClipScanLine(f, i, gen.polygon) \o ClipScanLines(gen, f, i + 1, count)

\* LineInfill.generate.
LineInfill_generate(gen) == ClipScanLines(gen, ScanFrame(gen), 0, ScanLinesGenerated(gen))

\* The number of scan lines that ZigZagInfill.generate_polylines builds and
\* clips: the same frame, safety check and loop as LineInfill.generate.
ZigZagScanLinesGenerated(gen) ==
    IF NothingToFill(gen) THEN 0
    ELSE IF OutOfRange(ScanFrame(gen).num_lines) THEN 0
    ELSE LoopCount(ScanFrame(gen).num_lines)

\* Densities in millimetres; the first lies below the floor of 0.1.
Densities == {Q(1, 20), Q(1, 2), QInt(1), QInt(2), QInt(3)}

Angles == {0, 37, 53, 90, 127, 143, 180, 270, 360}

OutlineOffsets == {QInt(0), Q(1, 4), QInt(1)}

\* generateInfill with pattern = lines on one polygon.
InitLines ==
    /\ geom_op = "lines"
    /\ geom_args \in [polygon : Squares \cup Triangles, density : Densities,
                      angle : Angles, outline_offset : OutlineOffsets]
    /\ geom_out = None

\* LineInfill(polygon, density, angle, outline_offset).generate() returns.
ApplyLines ==
    /\ geom_op = "lines"
    /\ geom_out = None
    /\ geom_out' = [segments |->
                      LineInfill_generate(InfillGenerator(geom_args.polygon, geom_args.density,
                                                          geom_args.angle, geom_args.outline_offset))]
    /\ UNCHANGED <<geom_op, geom_args>>
    /\ UNCHANGED outsideGeometry

\* Sides around the one that gives exactly MaxNumLines intervals at the
\* smallest density.
CapSides == {1, MaxNumLines \div 10, MaxNumLines \div 10 + 1}

\* The scan-line loop of the lines and zigzag patterns on a large square.
InitScanLines ==
    /\ geom_op = "scan_lines"
    /\ geom_args \in [pattern : {"lines", "zigzag"},
                      polygon : {Square(s) : s \in CapSides} \cup Squares,
                      density : {Q(1, 20), Q(1, 10), QInt(1)},
                      angle : {0, 53, 90}]
    /\ geom_out = None

\* The scan lines are generated and clipped; the loop is counted.
ApplyScanLines ==
    /\ geom_op = "scan_lines"
    /\ geom_out = None
    /\ LET gen == InfillGenerator(geom_args.polygon, geom_args.density, geom_args.angle, QInt(0))
       IN geom_out' = [num_lines |-> ScanFrame(gen).num_lines,
                       scan_lines |-> IF geom_args.pattern = "zigzag"
                                      THEN ZigZagScanLinesGenerated(gen)
                                      ELSE ScanLinesGenerated(gen)]
    /\ UNCHANGED <<geom_op, geom_args>>
    /\ UNCHANGED outsideGeometry

(***************************************************************************)
(* services/infill/patterns.py: ConcentricInfill.generate_polylines, for a *)
(* convex polygon (it has no holes and never splits while it shrinks).     *)
(***************************************************************************)
\* "max_iterations = 1000  # Safety limit".
max_iterations == 1000

\* Mutant of NextRing: the ring spacing taken as the offset of each side
\* pair, half a density per side.
NextRingHalfStep(current_polygon, density) ==
    offset_polygon(current_polygon, QDiv(density, QInt(2)))

\* "next_polygon = offset_polygon(current_polygon, self.density)".
NextRing(current_polygon, density) == offset_polygon(current_polygon, density)

\* A square large enough for the iteration limit to matter at the smallest
\* density.
LargeSquares == {Square(max_iterations \div 5 + 1)}

RingDensities == {Q(1, 10), Q(1, 2), QInt(1), Q(3, 2), QInt(2)}

\* generateInfill with pattern = concentric, outline_offset = 0, on a square.
InitConcentric ==
    /\ geom_op = "concentric"
    /\ geom_args \in [polygon : Squares \cup LargeSquares, density : RingDensities]
    /\ geom_out = None

\* generate_polylines begins: "if self.polygon.is_empty: return []", else
\* the locals before the while loop.
ConcentricStart ==
    /\ geom_op = "concentric"
    /\ geom_out = None
    /\ LET gen == InfillGenerator(geom_args.polygon, geom_args.density, 0, QInt(0))
       IN geom_out' = [polylines |-> <<>>,
                       active_polygon |-> gen.polygon,
                       density |-> gen.density,
                       iteration |-> 0,
                       returned |-> is_empty(gen.polygon)]
    /\ UNCHANGED <<geom_op, geom_args>>
    /\ UNCHANGED outsideGeometry

\* "while active_polygons and iteration < max_iterations".
ConcentricContinues ==
    /\ ~is_empty(geom_out.active_polygon)
    /\ geom_out.iteration < max_iterations

\* One iteration of the while loop: the boundary of the active polygon is
\* emitted and the polygon shrinks by one density step; an empty next
\* polygon leaves active_polygons empty.
ConcentricStep ==
    /\ geom_op = "concentric"
    /\ geom_out # None
    /\ ~geom_out.returned
    /\ ConcentricContinues
    /\ geom_out' = [geom_out EXCEPT
                      !.polylines = Append(@, geom_out.active_polygon.ring),
                      !.active_polygon = NextRing(@, geom_out.density),
                      !.iteration = @ + 1]
    /\ UNCHANGED <<geom_op, geom_args>>
    /\ UNCHANGED outsideGeometry

\* "return polylines".
ConcentricReturn ==
    /\ geom_op = "concentric"
    /\ geom_out # None
    /\ ~geom_out.returned
    /\ ~ConcentricContinues
    /\ geom_out' = [geom_out EXCEPT !.returned = TRUE]
    /\ UNCHANGED <<geom_op, geom_args>>
    /\ UNCHANGED outsideGeometry

(***************************************************************************)
(* services/geometry_utils.py: points_to_shapely_polygon and               *)
(* polygon_with_holes_to_shapely.  Shapely's make_valid is outside the     *)
(* repository: for an invalid outline it may return a polygon, a           *)
(* multi-polygon, or a collection of polygons, multi-polygons and lines.   *)
(* A geometry is its type, its area and its members.                       *)
(***************************************************************************)
\* The most members of a repaired geometry.
MaxPieces == 2

Areas == 0..2

PolygonPiece(area) == [geom_type |-> "Polygon", area |-> area, geoms |-> <<>>]

LinePiece == [geom_type |-> "LineString", area |-> 0, geoms |-> <<>>]

RECURSIVE SumAreas(_)
SumAreas(geoms) == IF geoms = <<>> THEN 0 ELSE geoms[1].area + SumAreas(Tail(geoms))

MultiPolygon(geoms) == [geom_type |-> "MultiPolygon", area |-> SumAreas(geoms), geoms |-> geoms]

GeometryCollection(geoms) ==
    [geom_type |-> "GeometryCollection", area |-> SumAreas(geoms), geoms |-> geoms]

\* The polygons of positive area.
PolygonPieces == {PolygonPiece(a) : a \in Areas \ {0}}

MultiPolygons == {MultiPolygon(g) : g \in {s \in SeqsUpTo(PolygonPieces, MaxPieces) : Len(s) >= 2}}

\* What make_valid may return.
Repairs ==
    PolygonPieces
    \cup MultiPolygons
    \cup {GeometryCollection(g) :
            g \in SeqsUpTo(PolygonPieces \cup {PolygonPiece(0), LinePiece} \cup MultiPolygons,
                           MaxPieces) \ {<<>>}}

\* The first member that is a polygon of positive area, if there is one:
\* "for geom in polygon.geoms: if geom.geom_type == 'Polygon' and
\* geom.area > 0: polygon = geom; break".
RECURSIVE FirstPolygon(_, _)
FirstPolygon(geoms, otherwise) ==
    IF geoms = <<>> THEN otherwise
    ELSE IF geoms[1].geom_type = "Polygon" /\ geoms[1].area > 0 THEN geoms[1]
    ELSE FirstPolygon(Tail(geoms), otherwise)

\* max(polygon.geoms, key=lambda p: p.area): the first member of the
\* largest area.
RECURSIVE LargestByArea(_)
LargestByArea(geoms) ==
    IF Len(geoms) = 1 THEN geoms[1]
    ELSE LET best == LargestByArea(SubSeq(geoms, 1, Len(geoms) - 1))
         IN IF geoms[Len(geoms)].area > best.area THEN geoms[Len(geoms)] ELSE best

\* "if not polygon.is_valid: polygon = make_valid(polygon) ..." with the
\* geometry that make_valid returned.
SelectRepaired(repaired) ==
    IF repaired.geom_type = "GeometryCollection" THEN FirstPolygon(repaired.geoms, repaired)
    ELSE IF repaired.geom_type = "MultiPolygon" THEN LargestByArea(repaired.geoms)
    ELSE repaired

\* polygon_with_holes_to_shapely (and points_to_shapely_polygon) for an
\* outline that is valid, or that make_valid repairs to `repaired`.
polygon_with_holes_to_shapely(is_valid, built, repaired) ==
    IF ~is_valid THEN SelectRepaired(repaired) ELSE built

\* buildPolygon is called with an outline.
InitBuildPolygon ==
    /\ geom_op = "buildPolygon"
    /\ geom_args \in [is_valid : BOOLEAN, built : PolygonPieces, repaired : Repairs]
    /\ geom_out = None

\* polygon_with_holes_to_shapely returns.
ApplyBuildPolygon ==
    /\ geom_op = "buildPolygon"
    /\ geom_out = None
    /\ geom_out' = polygon_with_holes_to_shapely(geom_args.is_valid, geom_args.built,
                                                  geom_args.repaired)
    /\ UNCHANGED <<geom_op, geom_args>>
    /\ UNCHANGED outsideGeometry

\* The polygons inside a geometry, those of its multi-polygon members
\* included.
RECURSIVE PolygonsOf(_)
PolygonsOf(geom) ==
    IF geom.geom_type = "Polygon" THEN (IF geom.area > 0 THEN {geom} ELSE {})
    ELSE UNION {PolygonsOf(geom.geoms[i]) : i \in 1..Len(geom.geoms)}

\* C18: when validity repair yields more than one polygonal piece, in a
\* multi-polygon or in a geometry collection, buildPolygon returns a single
\* polygon, the piece of the largest area.
C18_LargestPieceIsKept ==
    (geom_op = "buildPolygon" /\ geom_out # None /\ ~geom_args.is_valid
       /\ geom_args.repaired.geom_type \in {"MultiPolygon", "GeometryCollection"}
       /\ Len(geom_args.repaired.geoms) >= 2
       /\ PolygonsOf(geom_args.repaired) # {}) =>
        /\ geom_out.geom_type = "Polygon"
        /\ geom_out \in PolygonsOf(geom_args.repaired)
        /\ \A piece \in PolygonsOf(geom_args.repaired) : piece.area <= geom_out.area

(***************************************************************************)
(* services/centerline/smoothing.py: chaikin_smooth, and its copy          *)
(* _chaikin_smooth in services/centerline_extractor.py.                    *)
(***************************************************************************)
\* The most points of a polyline handed to the smoothing.
MaxSmoothLen == 4

\* The most smoothing iterations.
MaxIterations == 2

\* "0.75 * p0 + 0.25 * p1", coordinate by coordinate.
Blend(p0, p1) ==
    <<QAdd(QMul(Q(3, 4), p0[1]), QMul(Q(1, 4), p1[1])),
      QAdd(QMul(Q(3, 4), p0[2]), QMul(Q(1, 4), p1[2]))>>

\* Mutant of ChaikinPass: plain corner cutting, the end points not kept.
ChaikinPassOpen(points) ==
    [k \in 1..(2 * (Len(points) - 1)) |->
        IF k % 2 = 1 THEN Blend(points[(k + 1) \div 2], points[(k + 1) \div 2 + 1])
        ELSE Blend(points[k \div 2 + 1], points[k \div 2])]

\* One iteration of the loop: new_coords = [result[0]], then q and r for
\* every pair of neighbours, then result[-1].
ChaikinPass(points) ==
    [k \in 1..(2 * Len(points)) |->
        IF k = 1 THEN points[1]
        ELSE IF k = 2 * Len(points) THEN points[Len(points)]
        ELSE IF k % 2 = 0 THEN Blend(points[k \div 2], points[k \div 2 + 1])
        ELSE Blend(points[k \div 2 + 1], points[k \div 2])]

\* chaikin_smooth(coords, iterations).
RECURSIVE chaikin_smooth(_, _)
chaikin_smooth(coords, iterations) ==
    IF iterations <= 0 THEN coords
    ELSE IF Len(coords) < 3 THEN coords
    ELSE chaikin_smooth(ChaikinPass(coords), iterations - 1)

SmoothPoints == {Pt(0, 0), Pt(4, 0), Pt(4, 4)}

\* chaikin_smooth is called with a polyline and a number of iterations.
InitChaikin ==
    /\ geom_op = "chaikin_smooth"
    /\ geom_args \in [coords : {c \in SeqsUpTo(SmoothPoints, MaxSmoothLen) : Len(c) >= 2},
                      iterations : 0..MaxIterations]
    /\ geom_out = None

\* chaikin_smooth returns.
ApplyChaikin ==
    /\ geom_op = "chaikin_smooth"
    /\ geom_out = None
    /\ geom_out' = [coords |-> chaikin_smooth(geom_args.coords, geom_args.iterations)]
    /\ UNCHANGED <<geom_op, geom_args>>
    /\ UNCHANGED outsideGeometry

RECURSIVE Pow2(_)
Pow2(k) == IF k = 0 THEN 1 ELSE 2 * Pow2(k - 1)

\* A polyline of L >= 3 points has been smoothed.
Smoothed ==
    /\ geom_op = "chaikin_smooth"
    /\ geom_out # None
    /\ Len(geom_args.coords) >= 3

\* The end points are kept, and 0 iterations change nothing.
EndPointsKept ==
    /\ geom_out.coords[1] = geom_args.coords[1]
    /\ geom_out.coords[Len(geom_out.coords)] = geom_args.coords[Len(geom_args.coords)]
    /\ geom_args.iterations = 0 => geom_out.coords = geom_args.coords

\* C19 as stated: N iterations on L >= 3 points give 1 + (L-1) * 2^N points,
\* the end points are kept, and 0 iterations return the input.
C19_ChaikinPointCount ==
    Smoothed =>
        /\ Len(geom_out.coords) = 1 + (Len(geom_args.coords) - 1) * Pow2(geom_args.iterations)
        /\ EndPointsKept

\* C19 amended: N iterations on L >= 3 points give L * 2^N points, the end
\* points are kept, and 0 iterations return the input.
C19_ChaikinDoublesPoints ==
    Smoothed =>
        /\ Len(geom_out.coords) = Len(geom_args.coords) * Pow2(geom_args.iterations)
        /\ EndPointsKept

\* C19 witness: a polyline of three different points smoothed twice.
C19_Witness ==
    /\ Smoothed
    /\ geom_args.iterations = 2
    /\ geom_args.coords = <<Pt(0, 0), Pt(4, 0), Pt(4, 4)>>
    /\ Len(geom_out.coords) = 12

(***************************************************************************)
(* The geometry functions, each called once with arguments of its own.     *)
(***************************************************************************)
InitGeometry ==
    /\ \/ InitOffset
       \/ InitLines
       \/ InitScanLines
       \/ InitConcentric
       \/ InitBuildPolygon
       \/ InitChaikin
    /\ OptimizerIdle
    /\ SolverIdle
    /\ BatchIdle
    /\ TimeoutIdle
    /\ PresetsIdle
    /\ PenTypesIdle
    /\ ProjectsIdle

NextGeometry ==
    \/ ApplyOffset
    \/ ApplyLines
    \/ ApplyScanLines
    \/ ConcentricStart
    \/ ConcentricStep
    \/ ConcentricReturn
    \/ ApplyBuildPolygon
    \/ ApplyChaikin

SpecGeometry == InitGeometry /\ [][NextGeometry]_vars

(***************************************************************************)
(* Properties of the infill patterns.                                      *)
(***************************************************************************)
\* The side of a square of Squares.
Side(polygon) == Bounds(polygon).maxx

\* The segment from a to b, in either direction.
IsSegment(seg, a, b) == seg = <<a, b>> \/ seg = <<b, a>>

\* The lines pattern ran on a square with angle 0, no outline offset and a
\* density (at least the floor) that divides the side.
LinesOnSquare ==
    /\ geom_op = "lines"
    /\ geom_out # None
    /\ geom_args.polygon \in Squares
    /\ geom_args.angle = 0
    /\ geom_args.outline_offset = QInt(0)
    /\ QLeq(MinDensity, geom_args.density)
    /\ QDiv(Side(geom_args.polygon), geom_args.density).d = 1

\* C13: lines pattern on an S x S square, angle 0, no outline offset,
\* density D dividing S: exactly S/D + 1 horizontal segments, at
\* y = k * D for k = 0..S/D, each spanning the full width.
C13_LinesOnSquare ==
    LinesOnSquare =>
        LET S == Side(geom_args.polygon)
            D == geom_args.density
            count == QDiv(S, D).n + 1
        IN /\ Len(geom_out.segments) = count
           /\ \A k \in 0..(count - 1) :
                 IsSegment(geom_out.segments[k + 1],
                           <<QInt(0), QMul(QInt(k), D)>>, <<S, QMul(QInt(k), D)>>)

\* C13 witness: a square of side 4 filled at density 2, three segments.
C13_Witness ==
    /\ LinesOnSquare
    /\ geom_args.polygon = Square(4)
    /\ geom_args.density = QInt(2)
    /\ Len(geom_out.segments) = 3

\* The scan-line loop of the lines or zigzag pattern has run.
ScanLinesCounted == geom_op = "scan_lines" /\ geom_out # None

\* C14 as stated: the number of scan lines generated and clipped is at
\* least 1 and at most 10,000, and a count computed outside that range
\* gives no scan line at all.
C14_ScanLinesAtMostCap ==
    ScanLinesCounted =>
        /\ geom_out.scan_lines > 0 => geom_out.scan_lines \in 1..MaxNumLines
        /\ geom_out.num_lines \notin 1..MaxNumLines => geom_out.scan_lines = 0

\* C14 amended: the computed count num_lines is the number of intervals;
\* when it lies in 1..10,000, num_lines + 1 scan lines are generated and
\* clipped (between 2 and 10,001), otherwise none.
C14_ScanLinesAtMostCapPlusOne ==
    ScanLinesCounted =>
        /\ geom_out.num_lines \in 1..MaxNumLines =>
              /\ geom_out.scan_lines = geom_out.num_lines + 1
              /\ geom_out.scan_lines \in 2..(MaxNumLines + 1)
        /\ geom_out.num_lines \notin 1..MaxNumLines => geom_out.scan_lines = 0

\* C14 witness: the count is exactly at the cap.
C14_Witness ==
    /\ ScanLinesCounted
    /\ geom_out.num_lines = MaxNumLines
    /\ geom_out.scan_lines = MaxNumLines + 1

\* The point lies in the box.
InBox(p, b) ==
    /\ QLeq(b.minx, p[1]) /\ QLeq(p[1], b.maxx)
    /\ QLeq(b.miny, p[2]) /\ QLeq(p[2], b.maxy)

\* The bounding box of the outline-offset polygon of a lines call.
OffsetBox ==
    InfillGenerator(geom_args.polygon, geom_args.density, geom_args.angle,
                    geom_args.outline_offset).bounds

\* C15: every segment of the lines pattern on a triangle or square has
\* both end points inside the bounding box of the outline-offset polygon.
C15_SegmentsInsideBoundingBox ==
    (geom_op = "lines" /\ geom_out # None) =>
        \A k \in 1..Len(geom_out.segments) :
            /\ InBox(geom_out.segments[k][1], OffsetBox)
            /\ InBox(geom_out.segments[k][2], OffsetBox)

\* C15 witness: a triangle with an outline offset, filled at a slanted
\* angle, with more than one segment.
C15_Witness ==
    /\ geom_op = "lines"
    /\ geom_out # None
    /\ geom_args.polygon \in Triangles
    /\ geom_args.angle = 53
    /\ geom_args.outline_offset = Q(1, 4)
    /\ Len(geom_out.segments) >= 2

\* The concentric pattern has returned for a square.
ConcentricReturned == geom_op = "concentric" /\ geom_out # None /\ geom_out.returned

\* S / (2 * D) for the square and the density of a concentric call.
RingRatio == QDiv(Side(geom_args.polygon), QMul(QInt(2), QMax(MinDensity, geom_args.density)))

Least(a, b) == IF a < b THEN a ELSE b

\* C16 as stated: concentric infill on a square of side S with density D
\* gives exactly floor(S / (2 * D)) rings, the outermost the boundary of
\* the square.
C16_RingCountIsFloor ==
    ConcentricReturned =>
        /\ Len(geom_out.polylines) = QFloor(RingRatio)
        /\ Len(geom_out.polylines) >= 1 => geom_out.polylines[1] = geom_args.polygon.ring

\* C16 amended: the number of rings is at least ceil(S / (2 * D)) and at
\* most floor(S / (2 * D)) + 1, both capped at max_iterations; every ring
\* is closed and the outermost is the boundary of the square.
C16_RingCountIsCeiling ==
    ConcentricReturned =>
        /\ Len(geom_out.polylines) >= Least(max_iterations, QCeil(RingRatio))
        /\ Len(geom_out.polylines) <= Least(max_iterations, QFloor(RingRatio) + 1)
        /\ Len(geom_out.polylines) >= 1
        /\ geom_out.polylines[1] = geom_args.polygon.ring
        /\ \A k \in 1..Len(geom_out.polylines) :
              geom_out.polylines[k][1] = geom_out.polylines[k][Len(geom_out.polylines[k])]

\* C16 witness: 2 * D does not divide S and there are floor + 1 >= 2 rings.
C16_Witness ==
    /\ ConcentricReturned
    /\ RingRatio.d # 1
    /\ Len(geom_out.polylines) = QFloor(RingRatio) + 1
    /\ Len(geom_out.polylines) >= 2

(***************************************************************************)
(* routers/tool_presets.py over repositories/memory.py: tool presets are   *)
(* created, updated and deleted, each request handled as one step.         *)
(***************************************************************************)
MaxPresets == 3

PresetNames == {"fine", "bold", "sketch"}

\* The tool_configs of a request, told apart by their pens.
ToolConfigs == {<<"pen">>, <<"pen", "brush">>}

\* An optional field of a request that is present; an absent one is None.
Given(value) == <<value>>

\* The ids the repository has handed out so far or is asked about.
PresetIds == 1..(MaxPresets + 1)

\* InMemoryToolPresetRepository.__init__.
InitPresets ==
    /\ storage = <<>>
    /\ next_id = 1
    /\ preset_reply = None
    /\ OptimizerIdle
    /\ SolverIdle
    /\ BatchIdle
    /\ TimeoutIdle
    /\ GeometryIdle
    /\ PenTypesIdle
    /\ ProjectsIdle

\* get_by_id: storage.get(preset_id).
get_by_id(preset_id) ==
    IF preset_id \in DOMAIN storage THEN storage[preset_id] ELSE None

\* get_by_name: the first stored preset of that name, in the dict's
\* (insertion, hence id) order.
get_by_name(name) ==
    LET named == {i \in DOMAIN storage : storage[i].name = name}
    IN IF named = {} THEN None
       ELSE storage[CHOOSE i \in named : \A j \in named : i <= j]

\* Mutant of NameConflict: no name is ever in conflict.
NameConflictNever(name, preset_id) == FALSE

\* update_tool_preset: "existing and existing.id != preset_id".
NameConflict(name, preset_id) ==
    /\ get_by_name(name) # None
    /\ get_by_name(name).id # preset_id

\* The storage with the preset stored under its id.
Store(preset) ==
    [i \in DOMAIN storage \cup {preset.id} |-> IF i = preset.id THEN preset ELSE storage[i]]

\* The answer to a request.
PresetReply(op, preset_id, name, status, detail) ==
    [op |-> op, preset_id |-> preset_id, name |-> name, status |-> status, detail |-> detail]

\* POST /api/tool-presets.
create_tool_preset ==
    \E name \in PresetNames, tool_configs \in ToolConfigs :
        /\ next_id <= MaxPresets
        /\ IF get_by_name(name) # None
           THEN /\ preset_reply' = PresetReply("create", 0, Given(name), 400,
                                               "Preset with this name already exists")
                /\ UNCHANGED <<storage, next_id>>
           ELSE /\ storage' = Store([id |-> next_id, name |-> name,
                                     tool_configs |-> tool_configs])
                /\ next_id' = next_id + 1
                /\ preset_reply' = PresetReply("create", next_id, Given(name), 201, "")
        /\ UNCHANGED outsidePresets

\* PUT /api/tool-presets/{preset_id}; a field left out of the request is None.
update_tool_preset ==
    \E preset_id \in PresetIds, name \in {Given(n) : n \in PresetNames} \cup {None},
       tool_configs \in ToolConfigs \cup {None} :
        /\ IF name # None /\ NameConflict(name[1], preset_id)
           THEN /\ preset_reply' = PresetReply("update", preset_id, name, 400,
                                               "Preset with this name already exists")
                /\ UNCHANGED storage
           ELSE IF get_by_id(preset_id) = None
           THEN /\ preset_reply' = PresetReply("update", preset_id, name, 404,
                                               "Tool preset not found")
                /\ UNCHANGED storage
           ELSE /\ storage' = Store([id |-> preset_id,
                                     name |-> IF name # None THEN name[1]
                                              ELSE storage[preset_id].name,
                                     tool_configs |-> IF tool_configs # None THEN tool_configs
                                                      ELSE storage[preset_id].tool_configs])
                /\ preset_reply' = PresetReply("update", preset_id, name, 200, "")
        /\ UNCHANGED next_id
        /\ UNCHANGED outsidePresets

\* DELETE /api/tool-presets/{preset_id}.
delete_tool_preset ==
    \E preset_id \in PresetIds :
        /\ IF preset_id \in DOMAIN storage
           THEN /\ storage' = [i \in DOMAIN storage \ {preset_id} |-> storage[i]]
                /\ preset_reply' = PresetReply("delete", preset_id, None, 204, "")
           ELSE /\ preset_reply' = PresetReply("delete", preset_id, None, 404,
                                               "Tool preset not found")
                /\ UNCHANGED storage
        /\ UNCHANGED next_id
        /\ UNCHANGED outsidePresets

NextPresets ==
    \/ create_tool_preset
    \/ update_tool_preset
    \/ delete_tool_preset

SpecPresets == InitPresets /\ [][NextPresets]_vars

\* No two stored presets have the same name.
NamesUnique ==
    \A i, j \in DOMAIN storage : storage[i].name = storage[j].name => i = j

\* Some preset other than preset_id is stored under the name.
StoredBy(name, preset_id) ==
    \E i \in DOMAIN storage : i # preset_id /\ storage[i].name = name

\* The request just answered asked for a name another preset holds.
AsksForTakenName ==
    \/ preset_reply'.op = "create" /\ StoredBy(preset_reply'.name[1], 0)
    \/ /\ preset_reply'.op = "update"
       /\ preset_reply'.name # None
       /\ StoredBy(preset_reply'.name[1], preset_reply'.preset_id)

Rejected ==
    /\ preset_reply'.status = 400
    /\ preset_reply'.detail = "Preset with this name already exists"
    /\ storage' = storage

\* C20: after any sequence of create, update and delete requests no two
\* stored presets have the same name, and a create or a rename that asks
\* for a name another preset holds is rejected with 400 'already exists'
\* and leaves the stored presets unchanged.
C20_PresetNamesUnique ==
    /\ []NamesUnique
    /\ [][AsksForTakenName => Rejected]_vars

\* C20 witness: two presets are stored and a rename of the second to the
\* name of the first has just been rejected.
C20_Witness ==
    /\ Cardinality(DOMAIN storage) >= 2
    /\ preset_reply # None
    /\ preset_reply.op = "update"
    /\ preset_reply.status = 400
    /\ preset_reply.preset_id \in DOMAIN storage
    /\ StoredBy(preset_reply.name[1], preset_reply.preset_id)

(***************************************************************************)
(* routers/pen_types.py over repositories/sqlalchemy.py and the pen_types  *)
(* table of models.py: pen types are created, updated and deleted, each    *)
(* request handled as one step.                                            *)
(***************************************************************************)
PenTypeIds == {"stabilo", "posca"}

\* The columns of a pen type besides its id, all of them "nullable=False".
PenTypeFields == {"display_name", "pen_up", "pen_down", "pump_distance_threshold", "pump_height"}

\* A field of an update request: left out, given as JSON null, or given
\* with a value.
Unset == [given |-> "unset"]

Null == [given |-> "null"]

Value(v) == [given |-> "value", value |-> v]

\* What a pen type is created with, and what an update may ask for.
CreatedPenType ==
    [display_name |-> "Stabilo", pen_up |-> 30, pen_down |-> 10,
     pump_distance_threshold |-> 0, pump_height |-> 50]

UpdatedPenType ==
    [display_name |-> "Posca", pen_up |-> 35, pen_down |-> 12,
     pump_distance_threshold |-> 500, pump_height |-> 75]

\* PenTypeUpdate: every field is optional and accepts None.  The requests
\* tried: any set of fields given with values, or one field
\* given as null with the others either all left out or all given.
PenTypeUpdates ==
    [PenTypeFields -> {"unset", "value"}]
    \cup {[f \in PenTypeFields |-> IF f = n THEN "null" ELSE rest] :
            n \in PenTypeFields, rest \in {"unset", "value"}}

PenTypeUpdate(shape) ==
    [f \in PenTypeFields |->
        CASE shape[f] = "unset" -> Unset
          [] shape[f] = "null" -> Null
          [] shape[f] = "value" -> Value(UpdatedPenType[f])]

\* "pen_type.model_dump(exclude_unset=True)": the fields the request set,
\* those set to None included.
update_data(pen_type) == {f \in PenTypeFields : pen_type[f] # Unset}

\* The pen_types table starts empty.
InitPenTypes ==
    /\ pen_types = <<>>
    /\ pen_reply = None
    /\ OptimizerIdle
    /\ SolverIdle
    /\ BatchIdle
    /\ TimeoutIdle
    /\ GeometryIdle
    /\ PresetsIdle
    /\ ProjectsIdle

PenReply(op, pen_type_id, pen_type, status) ==
    [op |-> op, pen_type_id |-> pen_type_id, pen_type |-> pen_type, status |-> status]

\* POST /api/pen-types.
create_pen_type ==
    \E pen_type_id \in PenTypeIds :
        /\ IF pen_type_id \in DOMAIN pen_types
           THEN /\ pen_reply' = PenReply("create", pen_type_id, None, 400)
                /\ UNCHANGED pen_types
           ELSE /\ pen_types' = [i \in DOMAIN pen_types \cup {pen_type_id} |->
                                    IF i = pen_type_id THEN CreatedPenType ELSE pen_types[i]]
                /\ pen_reply' = PenReply("create", pen_type_id, None, 201)
        /\ UNCHANGED outsidePenTypes

\* "for key, value in update_data.items(): setattr(db_pen_type, key, value)":
\* the row as the session holds it before the commit; a None is marked by
\* the field that carries it.
SetAttrs(db_pen_type, pen_type) ==
    [f \in PenTypeFields |->
        IF f \in update_data(pen_type) THEN pen_type[f] ELSE Value(db_pen_type[f])]

\* "self.db.commit()": the UPDATE of a row with a NULL in a column that is
\* "nullable=False" raises IntegrityError.
CommitFails(row) == \E f \in PenTypeFields : row[f] = Null

\* The row after a commit that succeeds.
StoredRow(db_pen_type, row) == [f \in PenTypeFields |-> row[f].value]

\* PUT /api/pen-types/{pen_type_id}: 404 for an id not stored; an
\* IntegrityError is caught nowhere and answered 500, the session is
\* closed and the row stays as it was.
update_pen_type ==
    \E pen_type_id \in PenTypeIds, shape \in PenTypeUpdates :
        /\ IF pen_type_id \notin DOMAIN pen_types
           THEN /\ pen_reply' = PenReply("update", pen_type_id, PenTypeUpdate(shape), 404)
                /\ UNCHANGED pen_types
           ELSE IF CommitFails(SetAttrs(pen_types[pen_type_id], PenTypeUpdate(shape)))
           THEN /\ pen_reply' = PenReply("update", pen_type_id, PenTypeUpdate(shape), 500)
                /\ UNCHANGED pen_types
           ELSE /\ pen_types' =
                      [pen_types EXCEPT ![pen_type_id] =
                          StoredRow(@, SetAttrs(@, PenTypeUpdate(shape)))]
                /\ pen_reply' = PenReply("update", pen_type_id, PenTypeUpdate(shape), 200)
        /\ UNCHANGED outsidePenTypes

\* DELETE /api/pen-types/{pen_type_id}.
delete_pen_type ==
    \E pen_type_id \in PenTypeIds :
        /\ IF pen_type_id \in DOMAIN pen_types
           THEN /\ pen_types' = [i \in DOMAIN pen_types \ {pen_type_id} |-> pen_types[i]]
                /\ pen_reply' = PenReply("delete", pen_type_id, None, 204)
           ELSE /\ pen_reply' = PenReply("delete", pen_type_id, None, 404)
                /\ UNCHANGED pen_types
        /\ UNCHANGED outsidePenTypes

NextPenTypes ==
    \/ create_pen_type
    \/ update_pen_type
    \/ delete_pen_type

SpecPenTypes == InitPenTypes /\ [][NextPenTypes]_vars

\* The request just answered was an update.
UpdateAnswered == pen_reply' # None /\ pen_reply'.op = "update"

\* The stored pen type with exactly the fields present in the request
\* changed to what the request gives for them.
WithFieldsOf(db_pen_type, pen_type) ==
    [f \in PenTypeFields |->
        IF pen_type[f] = Unset THEN Value(db_pen_type[f]) ELSE pen_type[f]]

\* An update of a stored pen type is answered 200 and changes exactly the
\* fields present; an update of an id not stored is answered 404 and
\* changes nothing.
UpdateIsPartial ==
    IF pen_reply'.pen_type_id \in DOMAIN pen_types
    THEN /\ pen_reply'.status = 200
         /\ DOMAIN pen_types' = DOMAIN pen_types
         /\ \A i \in DOMAIN pen_types \ {pen_reply'.pen_type_id} : pen_types'[i] = pen_types[i]
         /\ \A f \in PenTypeFields :
               Value(pen_types'[pen_reply'.pen_type_id][f])
                   = WithFieldsOf(pen_types[pen_reply'.pen_type_id], pen_reply'.pen_type)[f]
    ELSE /\ pen_reply'.status = 404
         /\ pen_types' = pen_types

\* C21: an update changes exactly the fields present in the request, every
\* other field, the id and every other stored pen type keep their values,
\* and an update for an id that is not stored returns 404 and changes
\* nothing.
C21_PartialUpdate == [][UpdateAnswered => UpdateIsPartial]_vars

(***************************************************************************)
(* The greedy step rule and the orientation of the chosen item.            *)
(***************************************************************************)
\* The points at which an item may be entered: both endpoints of a segment
\* or of an open polyline, every vertex of a closed polyline.
EntryPoints(item) ==
    IF kind = "segments" THEN {item[1], item[2]}
    ELSE IF item[1] = item[Len(item)] THEN {item[j] : j \in 1..Len(item)}
    ELSE {item[1], item[Len(item)]}

\* The distances from the current position to every entry point of every
\* remaining item.
EntryDistances ==
    {calculate_distance(current_pos, p) :
        p \in UNION {EntryPoints(remaining[i]) : i \in 1..Len(remaining)}}

MinEntryDistance == CHOOSE d \in EntryDistances : \A e \in EntryDistances : d <= e

\* The greedy loop is entered.
GreedyStarts == pc = "call" /\ pc' = "greedy"

StartsAtFirstPosition ==
    /\ current_pos' = IF start_point # None THEN start_point ELSE InputItems[1][1]
    /\ total_travel' = 0

\* One iteration of the greedy loop has appended an item.
GreedyChooses == pc = "greedy" /\ Len(ordered') = Len(ordered) + 1

ChosenItem == ordered'[Len(ordered')]

StepIsNearest ==
    /\ calculate_distance(current_pos, ChosenItem[1]) = MinEntryDistance
    /\ \E i \in 1..Len(remaining) :
          /\ remaining' = PopAt(remaining, i)
          /\ ChosenItem[1] \in EntryPoints(remaining[i])
          /\ {ChosenItem[j] : j \in 1..Len(ChosenItem)}
                = {remaining[i][j] : j \in 1..Len(remaining[i])}
    /\ current_pos' = ChosenItem[Len(ChosenItem)]
    /\ total_travel' = total_travel + MinEntryDistance

\* The greedy loop returns.
GreedyReturns == pc = "greedy" /\ pc' = "done"

ReportsTravel == stats'.total_travel_length_mm = total_travel

\* C22: the current position starts at the explicit start point if one is
\* given, else at the first endpoint of the first input item; at every
\* iteration the entry point of the chosen item is at minimum distance from
\* the current position over all candidate entry points of all remaining
\* items, the chosen item begins at that entry point, the current position
\* becomes the item's exit point, and the reported total travel is the sum of
\* these minimum distances.
C22_GreedyStepRule ==
    [][/\ GreedyStarts => StartsAtFirstPosition
       /\ GreedyChooses => StepIsNearest
       /\ GreedyReturns => ReportsTravel]_vars

\* C22 witness: a run from an explicit start point that entered an open
\* polyline at its far end, paid travel and has reported it.
C22_Witness ==
    /\ pc = "done"
    /\ kind = "polylines"
    /\ start_point # None
    /\ Len(polylines) = 2
    /\ stats.total_travel_length_mm > 0
    /\ \E k \in 1..Len(result) : \E i \in 1..Len(polylines) :
          /\ polylines[i][1] # polylines[i][Len(polylines[i])]
          /\ result[k] = Reverse(polylines[i])
          /\ result[k] # polylines[i]

\* out is ring started at another vertex: the same cyclic sequence in the
\* same direction, the entry vertex at both ends.
IsRingFrom(out, ring) ==
    /\ Len(out) = Len(ring)
    /\ out[1] = out[Len(out)]
    /\ \E k \in 0..(Len(ring) - 2) :
          \A j \in 1..Len(ring) : out[j] = ring[((k + j - 1) % (Len(ring) - 1)) + 1]

\* out is the way the optimizer may draw the input polyline.
DrawnAs(out, polyline) ==
    IF polyline[1] = polyline[Len(polyline)]
    THEN IsRingFrom(out, polyline)
    ELSE out = polyline \/ out = Reverse(polyline)

HoleRing(x0, x1, y0, y1) ==
    <<<<x0, y0>>, <<x1, y0>>, <<x1, y1>>, <<x0, y1>>, <<x0, y0>>>>

\* Holes of three widths inside every square of side 4 or more; no scan line
\* of the densities below runs along one of their edges.
Holes ==
    {HoleRing(Q(7, 4), Q(9, 4), Q(3, 4), Q(13, 4)),
     HoleRing(Q(5, 4), Q(11, 4), Q(3, 4), Q(13, 4)),
     HoleRing(Q(3, 4), Q(13, 4), Q(3, 4), Q(13, 4))}

\* polygon.intersection(line) where the polygon has a hole: the part of the
\* line inside the outline without the part inside the hole.  The order of
\* the two parts of a MultiLineString is Shapely's choice (along).
PiecesAround(outer, inner, line_start, line_end, along) ==
    IF outer.outside \/ ~QLess(outer.lo, outer.hi) THEN <<>>
    ELSE IF inner.outside \/ ~QLess(inner.lo, inner.hi)
         THEN <<<<PointAt(line_start, line_end, outer.lo),
                  PointAt(line_start, line_end, outer.hi)>>>>
         ELSE IF along
              THEN <<<<PointAt(line_start, line_end, outer.lo),
                       PointAt(line_start, line_end, inner.lo)>>,
                     <<PointAt(line_start, line_end, inner.hi),
                       PointAt(line_start, line_end, outer.hi)>>>>
              ELSE <<<<PointAt(line_start, line_end, inner.hi),
                       PointAt(line_start, line_end, outer.hi)>>,
                     <<PointAt(line_start, line_end, outer.lo),
                       PointAt(line_start, line_end, inner.lo)>>>>

\* clip_line_to_polygon for a polygon that may have a hole.
clip_line_to_holed_polygon(line_start, line_end, polygon, hole, along) ==
    IF hole = None THEN clip_line_to_polygon(line_start, line_end, polygon)
    ELSE IF is_empty(polygon) THEN <<>>
    ELSE PiecesAround(ClipRange(polygon.ring, 1, line_start, line_end, QInt(0), QInt(1)),
                      ClipRange(hole, 1, line_start, line_end, QInt(0), QInt(1)),
                      line_start, line_end, along)

\* "line_center = center + normal * offset" of scan line i.
ScanLineCenter(f, i) ==
    VAdd(f.center,
         VScale(f.normal, QAdd(f.proj_min, QMul(Q(i, f.num_lines), f.proj_length))))

\* "direction * diagonal".
ScanLineReach(f) == VScale(f.direction, Diagonal(f.width, f.height))

ZigZagClipLine(line_center, reach, polygon, hole, along) ==
    clip_line_to_holed_polygon(VSub(line_center, reach), VAdd(line_center, reach),
                               polygon, hole, along)

\* "if segments: scan_lines.append(segments)".
AppendIfAny(pieces) == IF pieces = <<>> THEN <<>> ELSE <<pieces>>

\* The loop "for i in range(num_lines + 1)" of generate_polylines from
\* iteration i on.
RECURSIVE ZigZagScanLines(_, _, _, _, _, _)
ZigZagScanLines(gen, f, hole, along, i, count) ==
    IF i >= count THEN <<>>
    ELSE AppendIfAny(ZigZagClipLine(ScanLineCenter(f, i), ScanLineReach(f),
                                    gen.polygon, hole, along))
            \o ZigZagScanLines(gen, f, hole, along, i + 1, count)

\* scan_lines of generate_polylines ("if not scan_lines: return []" and the
\* earlier returns leave it empty).
ScanLinesOf(gen, hole, along) ==
    IF ZigZagScanLinesGenerated(gen) = 0 THEN <<>>
    ELSE ZigZagScanLines(gen, ScanFrame(gen), hole, along, 0, ZigZagScanLinesGenerated(gen))

\* "(start[0] - current[-1][0]) ** 2 + (start[1] - current[-1][1]) ** 2".
SquaredDistance(p, q) == Dot(VSub(p, q), VSub(p, q))

\* "dist <= threshold", both sides squared.
WithinThreshold(start, last, threshold) ==
    QLeq(SquaredDistance(start, last), QMul(threshold, threshold))

\* The body of "for start, end in segments".
Connect(st, start, end, threshold) ==
    IF st.current = <<>>
    THEN [polylines |-> st.polylines, current |-> <<start, end>>]
    ELSE IF WithinThreshold(start, st.current[Len(st.current)], threshold)
         THEN [polylines |-> st.polylines, current |-> Append(st.current, end)]
         ELSE [polylines |-> IF Len(st.current) >= 2
                             THEN Append(st.polylines, st.current)
                             ELSE st.polylines,
               current |-> <<start, end>>]

RECURSIVE ConnectAll(_, _, _, _)
ConnectAll(st, pieces, j, threshold) ==
    IF j > Len(pieces) THEN st
    ELSE ConnectAll(Connect(st, pieces[j][1], pieces[j][2], threshold),
                    pieces, j + 1, threshold)

\* "[(s[1], s[0]) for s in reversed(segments)]".
Backward(pieces) ==
    [k \in 1..Len(pieces) |->
        <<pieces[Len(pieces) + 1 - k][2], pieces[Len(pieces) + 1 - k][1]>>]

\* The locals after one iteration of "for segments in scan_lines":
\* "forward = not forward".
AfterScanLine(out, st) ==
    [pc |-> "stitch", scan_lines |-> out.scan_lines, next |-> out.next + 1,
     polylines |-> st.polylines, current |-> st.current, forward |-> ~out.forward]

\* One iteration of "for segments in scan_lines".
StitchScanLine(out, pieces, threshold) ==
    AfterScanLine(out,
                  ConnectAll([polylines |-> out.polylines, current |-> out.current],
                             IF out.forward THEN pieces ELSE Backward(pieces),
                             1, threshold))

\* Polygons with a hole only come with axis-parallel scan lines and without
\* outline offset.
InitZigZag ==
    /\ geom_op = "zigzag"
    /\ \/ geom_args \in [polygon : Squares \cup Triangles, hole : {None},
                         density : Densities, angle : Angles,
                         outline_offset : OutlineOffsets]
       \/ geom_args \in [polygon : {Square(MaxSide)}, hole : Holes,
                         density : Densities, angle : {0, 90, 180, 270},
                         outline_offset : {QInt(0)}]
    /\ geom_out = None
    /\ OptimizerIdle
    /\ SolverIdle
    /\ BatchIdle
    /\ TimeoutIdle
    /\ PresetsIdle
    /\ PenTypesIdle
    /\ ProjectsIdle

ZigZagGenerator ==
    InfillGenerator(geom_args.polygon, geom_args.density, geom_args.angle,
                    geom_args.outline_offset)

\* generate_polylines up to "forward = True".
ZigZagClip ==
    /\ geom_op = "zigzag"
    /\ geom_out = None
    /\ \E along \in BOOLEAN :
          geom_out' = [pc |-> "stitch",
                       scan_lines |-> ScanLinesOf(ZigZagGenerator, geom_args.hole, along),
                       next |-> 1, polylines |-> <<>>, current |-> <<>>,
                       forward |-> TRUE]
    /\ UNCHANGED <<geom_op, geom_args>>
    /\ UNCHANGED outsideGeometry

\* One scan line is connected; "threshold = self.density * 2.0".
ZigZagStitch ==
    /\ geom_op = "zigzag"
    /\ geom_out # None
    /\ geom_out.pc = "stitch"
    /\ geom_out.next <= Len(geom_out.scan_lines)
    /\ geom_out' = StitchScanLine(geom_out, geom_out.scan_lines[geom_out.next],
                                  QMul(QMax(MinDensity, geom_args.density), QInt(2)))
    /\ UNCHANGED <<geom_op, geom_args>>
    /\ UNCHANGED outsideGeometry

\* "if len(current) >= 2: polylines.append(current)" and the return.
ZigZagReturn ==
    /\ geom_op = "zigzag"
    /\ geom_out # None
    /\ geom_out.pc = "stitch"
    /\ geom_out.next > Len(geom_out.scan_lines)
    /\ geom_out' = [geom_out EXCEPT
                       !.pc = "done",
                       !.polylines = IF Len(geom_out.current) >= 2
                                     THEN Append(geom_out.polylines, geom_out.current)
                                     ELSE geom_out.polylines]
    /\ UNCHANGED <<geom_op, geom_args>>
    /\ UNCHANGED outsideGeometry

NextZigZag ==
    \/ ZigZagClip
    \/ ZigZagStitch
    \/ ZigZagReturn

SpecZigZag == InitZigZag /\ [][NextZigZag]_vars

ZigZagReturned ==
    /\ geom_op = "zigzag"
    /\ geom_out # None
    /\ geom_out.pc = "done"

RECURSIVE Flatten(_)
Flatten(lists) == IF lists = <<>> THEN <<>> ELSE Head(lists) \o Flatten(Tail(lists))

\* What the Lines pattern emits for the same polygon, density, angle and
\* outline_offset.
LinesOutput ==
    IF geom_args.hole = None THEN LineInfill_generate(ZigZagGenerator)
    ELSE Flatten(geom_out.scan_lines)

\* The polyline has the two ends of the segment as consecutive points.
DrawsSegment(polyline, seg) ==
    \E j \in 1..(Len(polyline) - 1) :
        \/ polyline[j] = seg[1] /\ polyline[j + 1] = seg[2]
        \/ polyline[j] = seg[2] /\ polyline[j + 1] = seg[1]

\* C24: every clipped scan-line segment that the Lines pattern emits is in
\* some zigzag polyline as a pair of consecutive points, in either direction.
C24_ZigZagKeepsScanLines ==
    ZigZagReturned =>
        \A k \in 1..Len(LinesOutput) :
            \E p \in 1..Len(geom_out.polylines) :
                DrawsSegment(geom_out.polylines[p], LinesOutput[k])

\* A drawn edge joins two pieces of one scan line.
BridgesHole(polyline, pieces) ==
    \E x, y \in 1..Len(pieces) :
        /\ x # y
        /\ \E j \in 1..(Len(polyline) - 1) :
              /\ polyline[j] \in {pieces[x][1], pieces[x][2]}
              /\ polyline[j + 1] \in {pieces[y][1], pieces[y][2]}

\* C25: when a hole splits a scan line into several pieces, no output
\* polyline has an edge from a point of one piece to a point of another
\* piece of that scan line, whatever the width of the hole.
C25_ZigZagNeverBridgesHole ==
    ZigZagReturned =>
        \A s \in 1..Len(geom_out.scan_lines) :
            \A p \in 1..Len(geom_out.polylines) :
                ~BridgesHole(geom_out.polylines[p], geom_out.scan_lines[s])

(***************************************************************************)
(* services/centerline_extractor.py: _trace_skeleton_directly.  A pixel is *)
(* <<row, column>>; the skeleton is the set of its foreground pixels.      *)
(***************************************************************************)
\* The number of rows of the image.
MaxRow == 3

\* The images have three columns.
Pixels == (0..(MaxRow - 1)) \X (0..2)

\* "neighbors = [(-1, 0), (0, 1), (1, 0), (0, -1), (-1, -1), (-1, 1), (1, 1),
\* (1, -1)]", as (dy, dx).
neighbors ==
    <<<<-1, 0>>, <<0, 1>>, <<1, 0>>, <<0, -1>>, <<-1, -1>>, <<-1, 1>>, <<1, 1>>, <<1, -1>>>>

NeighborAt(pt, k) == <<pt[1] + neighbors[k][1], pt[2] + neighbors[k][2]>>

\* The members of a sequence that satisfy keep, in their order.
RECURSIVE SelectFrom(_, _, _)
SelectFrom(pt, k, keep) ==
    IF k > Len(neighbors) THEN <<>>
    ELSE (IF NeighborAt(pt, k) \in keep THEN <<NeighborAt(pt, k)>> ELSE <<>>)
            \o SelectFrom(pt, k + 1, keep)

\* get_unvisited_neighbors: skeleton pixels around pt that are not visited,
\* in the order of neighbors.
get_unvisited_neighbors(skeleton_points, visited, pt) ==
    SelectFrom(pt, 1, skeleton_points \ visited)

\* count_neighbors.
count_neighbors(skeleton_points, pt) ==
    Cardinality({k \in 1..Len(neighbors) : NeighborAt(pt, k) \in skeleton_points})

\* "if n == 1: endpoints.append(pt)".
EndpointsOf(skeleton_points) ==
    {pt \in skeleton_points : count_neighbors(skeleton_points, pt) = 1}

\* "elif n >= 3: junctions.append(pt)".
JunctionsOf(skeleton_points) ==
    {pt \in skeleton_points : count_neighbors(skeleton_points, pt) >= 3}

\* Mutant of NextStarts: endpoints and junctions are taken in any order.
NextStartsMixed(skeleton_points, visited) ==
    (EndpointsOf(skeleton_points) \cup JunctionsOf(skeleton_points)) \ visited

\* "start_points = endpoints + junctions" with "if start in visited:
\* continue": the entries of the list that may be the next one traced from
\* (the pixel set is iterated in no particular order, so the endpoints come
\* in any order, and after them the junctions).
NextStarts(skeleton_points, visited) ==
    IF EndpointsOf(skeleton_points) \ visited # {}
    THEN EndpointsOf(skeleton_points) \ visited
    ELSE JunctionsOf(skeleton_points) \ visited

\* direction_score: "dx * ndx + dy * ndy".
direction_score(prev, current, neighbor) ==
    (current[2] - prev[2]) * (neighbor[2] - current[2])
        + (current[1] - prev[1]) * (neighbor[1] - current[1])

\* "unvisited.sort(key=direction_score, reverse=True)" and "unvisited[0]":
\* the first of the candidates with the highest score (the sort is stable).
BestContinuation(prev, current, unvisited) ==
    unvisited[CHOOSE i \in 1..Len(unvisited) :
                /\ \A j \in 1..Len(unvisited) :
                      direction_score(prev, current, unvisited[j])
                         <= direction_score(prev, current, unvisited[i])
                /\ \A j \in 1..(i - 1) :
                      direction_score(prev, current, unvisited[j])
                         < direction_score(prev, current, unvisited[i])]

\* "next_pt" of trace_path.
NextPoint(path, unvisited) ==
    IF Len(path) >= 2
    THEN BestContinuation(path[Len(path) - 1], path[Len(path)], unvisited)
    ELSE unvisited[1]

\* The locals when trace_path(start) has been entered.
Tracing(out, start, phase) ==
    [pc |-> "trace", phase |-> phase, visited |-> out.visited \cup {start},
     paths |-> out.paths, path |-> <<start>>]

\* A skeleton image is given; nothing is visited.
InitTrace ==
    /\ geom_op = "trace"
    /\ geom_args \in [skeleton_points : SUBSET Pixels]
    /\ geom_out = [pc |-> "pick", phase |-> "starts", visited |-> {}, paths |-> <<>>,
                   path |-> <<>>]
    /\ OptimizerIdle
    /\ SolverIdle
    /\ BatchIdle
    /\ TimeoutIdle
    /\ PresetsIdle
    /\ PenTypesIdle
    /\ ProjectsIdle

\* "if not skeleton_points: return []".
TraceNothing ==
    /\ geom_op = "trace"
    /\ geom_out.pc = "pick"
    /\ geom_args.skeleton_points = {}
    /\ geom_out' = [geom_out EXCEPT !.pc = "done"]
    /\ UNCHANGED <<geom_op, geom_args>>
    /\ UNCHANGED outsideGeometry

\* "for start in start_points": the next entry that is not visited is
\* traced from.
TraceFromStart ==
    /\ geom_op = "trace"
    /\ geom_out.pc = "pick"
    /\ geom_out.phase = "starts"
    /\ \E start \in NextStarts(geom_args.skeleton_points, geom_out.visited) :
          geom_out' = Tracing(geom_out, start, "starts")
    /\ UNCHANGED <<geom_op, geom_args>>
    /\ UNCHANGED outsideGeometry

\* "if not start_points: start_points = [next(iter(skeleton_points))]".
TraceFromAnyPixel ==
    /\ geom_op = "trace"
    /\ geom_out.pc = "pick"
    /\ geom_out.phase = "starts"
    /\ EndpointsOf(geom_args.skeleton_points) \cup JunctionsOf(geom_args.skeleton_points) = {}
    /\ geom_out.visited = {}
    /\ \E start \in geom_args.skeleton_points :
          geom_out' = Tracing(geom_out, start, "starts")
    /\ UNCHANGED <<geom_op, geom_args>>
    /\ UNCHANGED outsideGeometry

\* The loop over start_points is through.
StartsDone ==
    /\ geom_op = "trace"
    /\ geom_out.pc = "pick"
    /\ geom_out.phase = "starts"
    /\ geom_args.skeleton_points # {}
    /\ NextStarts(geom_args.skeleton_points, geom_out.visited) = {}
    /\ geom_out.visited # {}
    /\ geom_out' = [geom_out EXCEPT !.phase = "remaining"]
    /\ UNCHANGED <<geom_op, geom_args>>
    /\ UNCHANGED outsideGeometry

\* trace_path: "path.append(next_pt)", "visited.add(next_pt)".
TraceAdvance ==
    /\ geom_op = "trace"
    /\ geom_out.pc = "trace"
    /\ get_unvisited_neighbors(geom_args.skeleton_points, geom_out.visited,
                               geom_out.path[Len(geom_out.path)]) # <<>>
    /\ LET next_pt ==
              NextPoint(geom_out.path,
                        get_unvisited_neighbors(geom_args.skeleton_points, geom_out.visited,
                                                geom_out.path[Len(geom_out.path)]))
       IN geom_out' = [geom_out EXCEPT !.path = Append(@, next_pt),
                                       !.visited = @ \cup {next_pt}]
    /\ UNCHANGED <<geom_op, geom_args>>
    /\ UNCHANGED outsideGeometry

\* trace_path: "if not unvisited: break" and "return path".
TraceReturn ==
    /\ geom_op = "trace"
    /\ geom_out.pc = "trace"
    /\ get_unvisited_neighbors(geom_args.skeleton_points, geom_out.visited,
                               geom_out.path[Len(geom_out.path)]) = <<>>
    /\ geom_out' = [geom_out EXCEPT !.pc = "pick", !.paths = Append(@, geom_out.path),
                                    !.path = <<>>]
    /\ UNCHANGED <<geom_op, geom_args>>
    /\ UNCHANGED outsideGeometry

\* "while remaining: start = next(iter(remaining))".
TraceRemaining ==
    /\ geom_op = "trace"
    /\ geom_out.pc = "pick"
    /\ geom_out.phase = "remaining"
    /\ \E start \in geom_args.skeleton_points \ geom_out.visited :
          geom_out' = Tracing(geom_out, start, "remaining")
    /\ UNCHANGED <<geom_op, geom_args>>
    /\ UNCHANGED outsideGeometry

\* "remaining" is empty: the tracing is over.
TraceDone ==
    /\ geom_op = "trace"
    /\ geom_out.pc = "pick"
    /\ geom_out.phase = "remaining"
    /\ geom_args.skeleton_points \ geom_out.visited = {}
    /\ geom_out' = [geom_out EXCEPT !.pc = "done"]
    /\ UNCHANGED <<geom_op, geom_args>>
    /\ UNCHANGED outsideGeometry

NextTrace ==
    \/ TraceNothing
    \/ TraceFromStart
    \/ TraceFromAnyPixel
    \/ StartsDone
    \/ TraceAdvance
    \/ TraceReturn
    \/ TraceRemaining
    \/ TraceDone

\* The function runs on: no step of it is put off for ever.
SpecTrace == InitTrace /\ [][NextTrace]_vars /\ WF_vars(NextTrace)

Traced == geom_op = "trace" /\ geom_out.pc = "done"

\* Where the pixel occurs in the traced paths.
PositionsOf(pt) ==
    {<<k, j>> \in (1..Len(geom_out.paths)) \X (1..(MaxRow * 3)) :
        j <= Len(geom_out.paths[k]) /\ geom_out.paths[k][j] = pt}

EightNeighbours(p, q) ==
    /\ p # q
    /\ p[1] - q[1] \in {-1, 0, 1}
    /\ p[2] - q[2] \in {-1, 0, 1}

ConsumedOnce ==
    Traced =>
        /\ geom_out.visited = geom_args.skeleton_points
        /\ \A pt \in geom_args.skeleton_points : Cardinality(PositionsOf(pt)) = 1
        /\ \A k \in 1..Len(geom_out.paths) :
              /\ \A j \in 1..Len(geom_out.paths[k]) :
                    geom_out.paths[k][j] \in geom_args.skeleton_points
              /\ \A j \in 1..(Len(geom_out.paths[k]) - 1) :
                    EightNeighbours(geom_out.paths[k][j], geom_out.paths[k][j + 1])

\* A call of trace_path begins.
TraceBegins == geom_out.pc = "pick" /\ geom_out'.pc = "trace"

EndpointsFirst ==
    \/ geom_out'.path[1] \in EndpointsOf(geom_args.skeleton_points)
    \/ EndpointsOf(geom_args.skeleton_points) \ geom_out.visited = {}

\* C26: tracing terminates; at the end every foreground pixel is visited and
\* is in exactly one traced path at exactly one position; consecutive pixels
\* of a path are 8-neighbours; no trace starts at a junction or passage pixel
\* while an unvisited endpoint pixel exists.
C26_TracingConsumesOnce ==
    /\ <>Traced
    /\ []ConsumedOnce
    /\ [][TraceBegins => EndpointsFirst]_vars

\* C26 witness: an image with an endpoint and a junction was traced into
\* several paths, one of them of three pixels or more.
C26_Witness ==
    /\ Traced
    /\ EndpointsOf(geom_args.skeleton_points) # {}
    /\ JunctionsOf(geom_args.skeleton_points) # {}
    /\ Len(geom_out.paths) >= 2
    /\ \E k \in 1..Len(geom_out.paths) : Len(geom_out.paths[k]) >= 3

(***************************************************************************)
(* services/centerline_extractor.py: _merge_nearby_polylines.  The points  *)
(* lie on a line, one unit apart; distances are compared squared.          *)
(***************************************************************************)
\* The largest number of polylines handed to the merge.
MaxPaths == 3

MergePoints == {<<x, 0>> : x \in 0..3}

\* Runs of two or three neighbouring points, in both directions.
MergePaths ==
    {p \in UNION {[1..n -> MergePoints] : n \in 2..3} :
        \/ \A k \in 1..(Len(p) - 1) : p[k + 1][1] = p[k][1] + 1
        \/ \A k \in 1..(Len(p) - 1) : p[k + 1][1] = p[k][1] - 1}

\* Tolerances in units: nothing is near, only equal points are near, points
\* one unit apart are near.
Tolerances == {0, 1, 2}

\* "dist(p1, p2) < tolerance".
Near(p1, p2, tolerance) ==
    /\ tolerance > 0
    /\ (p1[1] - p2[1]) * (p1[1] - p2[1]) + (p1[2] - p2[2]) * (p1[2] - p2[2])
          < tolerance * tolerance

\* Mutant of new_seg: only the first endpoint combination is tried.
new_seg_end_to_start(seg_i, seg_j, tolerance) ==
    IF Near(seg_i[Len(seg_i)], seg_j[1], tolerance) THEN seg_i \o Tail(seg_j)
    ELSE None

\* "new_seg" of the loop body: the four endpoint combinations in the order
\* of the if/elif chain; None when no pair of endpoints is near.
new_seg(seg_i, seg_j, tolerance) ==
    IF Near(seg_i[Len(seg_i)], seg_j[1], tolerance)
    THEN seg_i \o Tail(seg_j)
    ELSE IF Near(seg_i[Len(seg_i)], seg_j[Len(seg_j)], tolerance)
    THEN seg_i \o Tail(Reverse(seg_j))
    ELSE IF Near(seg_i[1], seg_j[1], tolerance)
    THEN Reverse(seg_i) \o Tail(seg_j)
    ELSE IF Near(seg_i[1], seg_j[Len(seg_j)], tolerance)
    THEN seg_j \o Tail(seg_i)
    ELSE None

\* "segments[i] = new_seg" and "segments.pop(j)" (i and j count from 1).
Replaced(segs, i, j, joined) ==
    [k \in 1..(Len(segs) - 1) |->
        IF k = i THEN joined ELSE IF k < j THEN segs[k] ELSE segs[k + 1]]

\* _merge_nearby_polylines is called with a list of polylines.
InitMerge ==
    /\ geom_op = "merge"
    /\ geom_args \in [polylines : SeqsUpTo(MergePaths, MaxPaths), tolerance : Tolerances]
    /\ geom_out = [pc |-> "call", segs |-> <<>>, i |-> 0, j |-> 0, merged |-> FALSE]
    /\ OptimizerIdle
    /\ SolverIdle
    /\ BatchIdle
    /\ TimeoutIdle
    /\ PresetsIdle
    /\ PenTypesIdle
    /\ ProjectsIdle

\* "if len(polylines) <= 1: return polylines".
MergeTrivial ==
    /\ geom_op = "merge"
    /\ geom_out.pc = "call"
    /\ Len(geom_args.polylines) <= 1
    /\ geom_out' = [geom_out EXCEPT !.pc = "done", !.segs = geom_args.polylines]
    /\ UNCHANGED <<geom_op, geom_args>>
    /\ UNCHANGED outsideGeometry

\* "segments = [list(pl) for pl in polylines if len(pl) >= 2]", and the
\* first "while merged:" test with "merged = False", "i = 0".
MergeBegin ==
    /\ geom_op = "merge"
    /\ geom_out.pc = "call"
    /\ Len(geom_args.polylines) > 1
    /\ geom_out' = [pc |-> "outer", segs |-> geom_args.polylines, i |-> 1, j |-> 0,
                    merged |-> FALSE]
    /\ UNCHANGED <<geom_op, geom_args>>
    /\ UNCHANGED outsideGeometry

\* "while i < len(segments):" is entered: "j = i + 1".
MergeOuter ==
    /\ geom_op = "merge"
    /\ geom_out.pc = "outer"
    /\ geom_out.i <= Len(geom_out.segs)
    /\ geom_out' = [geom_out EXCEPT !.pc = "inner", !.j = geom_out.i + 1]
    /\ UNCHANGED <<geom_op, geom_args>>
    /\ UNCHANGED outsideGeometry

\* The body of "while j < len(segments):" when two endpoints are near.
MergeJoin ==
    /\ geom_op = "merge"
    /\ geom_out.pc = "inner"
    /\ geom_out.j <= Len(geom_out.segs)
    /\ new_seg(geom_out.segs[geom_out.i], geom_out.segs[geom_out.j],
               geom_args.tolerance) # None
    /\ geom_out' = [geom_out EXCEPT
                       !.segs = Replaced(geom_out.segs, geom_out.i, geom_out.j,
                                         new_seg(geom_out.segs[geom_out.i],
                                                 geom_out.segs[geom_out.j],
                                                 geom_args.tolerance)),
                       !.merged = TRUE]
    /\ UNCHANGED <<geom_op, geom_args>>
    /\ UNCHANGED outsideGeometry

\* The body of "while j < len(segments):" when none is: "j += 1".
MergeSkip ==
    /\ geom_op = "merge"
    /\ geom_out.pc = "inner"
    /\ geom_out.j <= Len(geom_out.segs)
    /\ new_seg(geom_out.segs[geom_out.i], geom_out.segs[geom_out.j],
               geom_args.tolerance) = None
    /\ geom_out' = [geom_out EXCEPT !.j = geom_out.j + 1]
    /\ UNCHANGED <<geom_op, geom_args>>
    /\ UNCHANGED outsideGeometry

\* The inner loop is left: "i += 1".
MergeInnerDone ==
    /\ geom_op = "merge"
    /\ geom_out.pc = "inner"
    /\ geom_out.j > Len(geom_out.segs)
    /\ geom_out' = [geom_out EXCEPT !.pc = "outer", !.i = geom_out.i + 1]
    /\ UNCHANGED <<geom_op, geom_args>>
    /\ UNCHANGED outsideGeometry

\* A pass is over and something was merged: "while merged:" goes round.
MergeAgain ==
    /\ geom_op = "merge"
    /\ geom_out.pc = "outer"
    /\ geom_out.i > Len(geom_out.segs)
    /\ geom_out.merged
    /\ geom_out' = [geom_out EXCEPT !.i = 1, !.merged = FALSE]
    /\ UNCHANGED <<geom_op, geom_args>>
    /\ UNCHANGED outsideGeometry

\* A pass is over and nothing was merged: "return segments".
MergeReturn ==
    /\ geom_op = "merge"
    /\ geom_out.pc = "outer"
    /\ geom_out.i > Len(geom_out.segs)
    /\ ~geom_out.merged
    /\ geom_out' = [geom_out EXCEPT !.pc = "done"]
    /\ UNCHANGED <<geom_op, geom_args>>
    /\ UNCHANGED outsideGeometry

NextMerge ==
    \/ MergeTrivial
    \/ MergeBegin
    \/ MergeOuter
    \/ MergeJoin
    \/ MergeSkip
    \/ MergeInnerDone
    \/ MergeAgain
    \/ MergeReturn

\* The function runs on: no step of it is put off for ever.
SpecMerge == InitMerge /\ [][NextMerge]_vars /\ WF_vars(NextMerge)

MergeReturned == geom_op = "merge" /\ geom_out.pc = "done"

\* Some endpoint of a is nearer than the tolerance to some endpoint of b.
EndpointsClose(a, b, tolerance) ==
    \E p \in {a[1], a[Len(a)]} : \E q \in {b[1], b[Len(b)]} :
        tolerance > 0
        /\ (p[1] - q[1]) * (p[1] - q[1]) + (p[2] - q[2]) * (p[2] - q[2])
              < tolerance * tolerance

MergeFixpoint ==
    MergeReturned =>
        \A x, y \in 1..Len(geom_out.segs) :
            x # y => ~EndpointsClose(geom_out.segs[x], geom_out.segs[y], geom_args.tolerance)

\* A merge takes place.
Merges == geom_out.pc = "inner" /\ geom_out'.segs # geom_out.segs

\* The ways to join a and b at an endpoint of each: the order of the points
\* of both is kept, one of the two turned round where needed, and the point
\* of b at the joint is left out.
JoinsOf(a, b) ==
    {a \o Tail(b), a \o Tail(Reverse(b)), Reverse(a) \o Tail(b), b \o Tail(a)}

MergesTwoIntoOne ==
    /\ Len(geom_out'.segs) = Len(geom_out.segs) - 1
    /\ \E x, y \in 1..Len(geom_out.segs) :
          /\ x < y
          /\ EndpointsClose(geom_out.segs[x], geom_out.segs[y], geom_args.tolerance)
          /\ geom_out'.segs[x] \in JoinsOf(geom_out.segs[x], geom_out.segs[y])
          /\ Len(geom_out'.segs[x]) = Len(geom_out.segs[x]) + Len(geom_out.segs[y]) - 1
          /\ \A k \in 1..Len(geom_out'.segs) :
                k # x => geom_out'.segs[k] = geom_out.segs[IF k < y THEN k ELSE k + 1]

\* C27: the merge loop terminates; on return no two distinct paths have a
\* pair of endpoints closer than the tolerance; each merge joins two paths
\* at the endpoint pair found close, keeps the point order of both (one of
\* them reversed when needed) and makes the list one path shorter.
C27_MergeReachesFixpoint ==
    /\ <>MergeReturned
    /\ []MergeFixpoint
    /\ [][Merges => MergesTwoIntoOne]_vars

\* C27 witness: three paths were merged into one; one of them had to be
\* turned round.
C27_Witness ==
    /\ MergeReturned
    /\ Len(geom_args.polylines) = 3
    /\ Len(geom_out.segs) = 1
    /\ \E k \in 1..3 : \E r \in 1..(Len(geom_out.segs[1]) - 1) :
          /\ geom_out.segs[1][r] = geom_args.polylines[k][2]
          /\ geom_out.segs[1][r + 1] = geom_args.polylines[k][1]
          /\ geom_args.polylines[k][1] # geom_args.polylines[k][2]

(***************************************************************************)
(* services/centerline_extractor.py: _extend_endpoints_to_boundary.  The   *)
(* polygon is a rectangle, every path and every other centerline runs      *)
(* parallel to the axes on whole millimetres, so that every length, every  *)
(* intersection and every midpoint is a whole number.                      *)
(***************************************************************************)
\* The largest number of points of a path.
MaxCoords == 4

\* "max_extension: float = 50.0": the length of the search ray.
max_extension == 50

\* polygon.boundary: the ring of the rectangle 6 mm x 10 mm.
boundary == <<<<0, 0>>, <<6, 0>>, <<6, 10>>, <<0, 10>>, <<0, 0>>>>

ExtendLattice == {2, 4} \X {2, 4, 6, 8}

\* Two different points on a line parallel to an axis.
AxisStep(p, q) == p # q /\ (p[1] = q[1] \/ p[2] = q[2])

\* The paths: one point, or up to MaxCoords points joined by axis-parallel edges.
ExtendPaths ==
    {p \in UNION {[1..n -> ExtendLattice] : n \in 1..MaxCoords} :
        \A k \in 1..(Len(p) - 1) : AxisStep(p[k], p[k + 1])}

\* The other centerlines of the polygon: none, one, or two that meet.
OtherCenterlines ==
    {<<>>,
     <<<<<<5, 2>>, <<5, 6>>>>>>,
     <<<<<<1, 4>>, <<5, 4>>>>, <<<<5, 2>>, <<5, 6>>>>>>}

LoopThresholds == {2, 4}

MaxExtends == {2, 4}

\* The length of an axis-parallel edge.
AxisLength(p, q) == Abs(p[1] - q[1]) + Abs(p[2] - q[2])

RECURSIVE TotalLength(_)
TotalLength(coords) ==
    IF Len(coords) < 2 THEN 0
    ELSE AxisLength(coords[1], coords[2]) + TotalLength(Tail(coords))

\* The square of dist_start_end.
SquaredGap(coords) ==
    (coords[Len(coords)][1] - coords[1][1]) * (coords[Len(coords)][1] - coords[1][1])
        + (coords[Len(coords)][2] - coords[1][2]) * (coords[Len(coords)][2] - coords[1][2])

\* Mutant of is_nearly_closed: the gap is not compared with the length.
is_nearly_closed_by_gap(coords, loop_threshold) ==
    /\ Len(coords) >= 4
    /\ SquaredGap(coords) < loop_threshold * loop_threshold

\* "is_nearly_closed": at least 4 points, "dist_start_end < loop_threshold"
\* and "gap_ratio < 0.15" (gap_ratio is 1.0 for a path of length 0); the
\* comparisons are made on the squares.
is_nearly_closed(coords, loop_threshold) ==
    /\ Len(coords) >= 4
    /\ SquaredGap(coords) < loop_threshold * loop_threshold
    /\ TotalLength(coords) > 0
    /\ 400 * SquaredGap(coords) < 9 * TotalLength(coords) * TotalLength(coords)

\* "midpoint = ((start_pt[0] + end_pt[0]) / 2, (start_pt[1] + end_pt[1]) / 2)".
Midpoint(p, q) == <<(p[1] + q[1]) \div 2, (p[2] + q[2]) \div 2>>

\* "result[0] = midpoint", "result[-1] = midpoint".
ClosedLoop(coords) ==
    [coords EXCEPT ![1] = Midpoint(coords[1], coords[Len(coords)]),
                   ![Len(coords)] = Midpoint(coords[1], coords[Len(coords)])]

\* The position of p along the ray from e in direction u, and to its left.
Along(e, u, p) == u[1] * (p[1] - e[1]) + u[2] * (p[2] - e[2])

Across(e, u, p) == u[1] * (p[2] - e[2]) - u[2] * (p[1] - e[1])

Greatest(a, b) == IF a < b THEN b ELSE a

\* extension_line.intersection(segment a-b) and the point of it closest to
\* the endpoint e, as its distance from e along the ray; -1 when the
\* intersection is empty.  A segment on the ray's line gives a LineString,
\* one across it a Point.
RayMeetsSegment(e, u, a, b) ==
    IF Across(e, u, a) = 0 /\ Across(e, u, b) = 0
    THEN IF Greatest(Along(e, u, a), Along(e, u, b)) < 0
            \/ Least(Along(e, u, a), Along(e, u, b)) > max_extension
         THEN -1
         ELSE Greatest(Least(Along(e, u, a), Along(e, u, b)), 0)
    ELSE IF /\ Along(e, u, a) = Along(e, u, b)
            /\ Along(e, u, a) >= 0
            /\ Along(e, u, a) <= max_extension
            /\ Across(e, u, a) * Across(e, u, b) <= 0
         THEN Along(e, u, a)
         ELSE -1

\* The nearer of two distances, -1 standing for "no intersection".
NearerHit(s, t) == IF s = -1 THEN t ELSE IF t = -1 THEN s ELSE Least(s, t)

\* get_closest_intersection_point for a line string (another centerline or
\* the boundary): the closest point over all its segments, from segment k on.
RECURSIVE get_closest_intersection_point(_, _, _, _)
get_closest_intersection_point(e, u, geometry, k) ==
    IF k >= Len(geometry) THEN -1
    ELSE NearerHit(RayMeetsSegment(e, u, geometry[k], geometry[k + 1]),
                   get_closest_intersection_point(e, u, geometry, k + 1))

\* "if pt: ... if dist > 0.01: candidates.append(...)": the distance when
\* the geometry gives a candidate, else -1.
CandidateOf(e, u, geometry) ==
    IF 100 * get_closest_intersection_point(e, u, geometry, 1) > 1
    THEN get_closest_intersection_point(e, u, geometry, 1)
    ELSE -1

\* "closest = min(candidates, key=lambda c: c[1])" over the other
\* centerlines from k on and the boundary.
RECURSIVE ClosestCandidate(_, _, _, _)
ClosestCandidate(e, u, other_lines, k) ==
    IF k > Len(other_lines) THEN CandidateOf(e, u, boundary)
    ELSE NearerHit(CandidateOf(e, u, other_lines[k]),
                   ClosestCandidate(e, u, other_lines, k + 1))

\* The direction "(dx / length, dy / length)" of an axis-parallel step.
UnitStep(from, to) ==
    <<(to[1] - from[1]) \div AxisLength(from, to), (to[2] - from[2]) \div AxisLength(from, to)>>

\* Mutant of Committed: the extension is made however far the point is.
CommittedAlways(end_point, u, closest, max_extend) ==
    IF closest = -1 THEN end_point
    ELSE <<end_point[1] + closest * u[1], end_point[2] + closest * u[2]>>

\* "if not candidates: return endpoint", "if closest[1] > max_extend: return
\* endpoint", "return closest[0]".
Committed(end_point, u, closest, max_extend) ==
    IF closest = -1 \/ closest > max_extend THEN end_point
    ELSE <<end_point[1] + closest * u[1], end_point[2] + closest * u[2]>>

\* extend_point.
extend_point(end_point, direction_point, other_lines, max_extend) ==
    IF AxisLength(direction_point, end_point) = 0 THEN end_point
    ELSE Committed(end_point, UnitStep(direction_point, end_point),
                   ClosestCandidate(end_point, UnitStep(direction_point, end_point),
                                    other_lines, 1),
                   max_extend)

\* "if len(cl) >= 2: other_lines.append(ShapelyLine(cl))".
OtherLines(other_centerlines) == SelectSeq(other_centerlines, LAMBDA cl : Len(cl) >= 2)

\* _extend_endpoints_to_boundary is called for a path.
InitExtend ==
    /\ geom_op = "extend"
    /\ geom_args \in [coords : ExtendPaths, other_centerlines : OtherCenterlines,
                      loop_threshold : LoopThresholds, max_extend : MaxExtends]
    /\ geom_out = [pc |-> "call", result |-> <<>>]
    /\ OptimizerIdle
    /\ SolverIdle
    /\ BatchIdle
    /\ TimeoutIdle
    /\ PresetsIdle
    /\ PenTypesIdle
    /\ ProjectsIdle

\* "if len(coords) < 2: return coords".
ExtendTooShort ==
    /\ geom_op = "extend"
    /\ geom_out.pc = "call"
    /\ Len(geom_args.coords) < 2
    /\ geom_out' = [pc |-> "done", result |-> geom_args.coords]
    /\ UNCHANGED <<geom_op, geom_args>>
    /\ UNCHANGED outsideGeometry

\* "if is_nearly_closed:" the loop is closed and returned.
ExtendClosesLoop ==
    /\ geom_op = "extend"
    /\ geom_out.pc = "call"
    /\ Len(geom_args.coords) >= 2
    /\ is_nearly_closed(geom_args.coords, geom_args.loop_threshold)
    /\ geom_out' = [pc |-> "done", result |-> ClosedLoop(geom_args.coords)]
    /\ UNCHANGED <<geom_op, geom_args>>
    /\ UNCHANGED outsideGeometry

\* "new_start = extend_point(result[0], result[1])", "result[0] = new_start".
ExtendStart ==
    /\ geom_op = "extend"
    /\ geom_out.pc = "call"
    /\ Len(geom_args.coords) >= 2
    /\ ~is_nearly_closed(geom_args.coords, geom_args.loop_threshold)
    /\ geom_out' = [pc |-> "end",
                    result |-> [geom_args.coords EXCEPT
                                   ![1] = extend_point(geom_args.coords[1],
                                                       geom_args.coords[2],
                                                       OtherLines(geom_args.other_centerlines),
                                                       geom_args.max_extend)]]
    /\ UNCHANGED <<geom_op, geom_args>>
    /\ UNCHANGED outsideGeometry

\* "new_end = extend_point(result[-1], result[-2])", "result[-1] = new_end".
ExtendEnd ==
    /\ geom_op = "extend"
    /\ geom_out.pc = "end"
    /\ geom_out' = [pc |-> "done",
                    result |-> [geom_out.result EXCEPT
                                   ![Len(geom_out.result)] =
                                       extend_point(geom_out.result[Len(geom_out.result)],
                                                    geom_out.result[Len(geom_out.result) - 1],
                                                    OtherLines(geom_args.other_centerlines),
                                                    geom_args.max_extend)]]
    /\ UNCHANGED <<geom_op, geom_args>>
    /\ UNCHANGED outsideGeometry

NextExtend ==
    \/ ExtendTooShort
    \/ ExtendClosesLoop
    \/ ExtendStart
    \/ ExtendEnd

SpecExtend == InitExtend /\ [][NextExtend]_vars

Extended == geom_op = "extend" /\ geom_out.pc = "done"

\* The path is a near-closed loop: at least 4 points, the gap between its
\* ends below loop_threshold and below 15% of its length.
NearClosedLoop ==
    /\ Len(geom_args.coords) >= 4
    /\ \E gap2 \in 0..200 :
          /\ gap2 = SquaredGap(geom_args.coords)
          /\ gap2 < geom_args.loop_threshold * geom_args.loop_threshold
          /\ 10000 * gap2 < 15 * 15 * TotalLength(geom_args.coords) * TotalLength(geom_args.coords)

\* p lies on the axis-parallel segment a-b.
OnSegment(p, a, b) ==
    \/ p[1] = a[1] /\ p[1] = b[1] /\ Least(a[2], b[2]) <= p[2] /\ p[2] <= Greatest(a[2], b[2])
    \/ p[2] = a[2] /\ p[2] = b[2] /\ Least(a[1], b[1]) <= p[1] /\ p[1] <= Greatest(a[1], b[1])

OnLine(p, line) == \E k \in 1..(Len(line) - 1) : OnSegment(p, line[k], line[k + 1])

\* The geometries a ray is intersected with.
RayTargets == {boundary} \cup {geom_args.other_centerlines[k] : k \in 1..Len(geom_args.other_centerlines)}

\* The distances at which the ray from old, pointing away from inner, meets
\* the line.
HitsOn(old, inner, line) ==
    {t \in 0..max_extension :
        OnLine(<<old[1] + t * ((old[1] - inner[1]) \div AxisLength(old, inner)),
                 old[2] + t * ((old[2] - inner[2]) \div AxisLength(old, inner))>>, line)}

\* The intersection of the ray with the line that is closest to the
\* endpoint; -1 when they do not meet.
FirstHit(old, inner, line) ==
    LET hits == HitsOn(old, inner, line)
    IN IF hits = {} THEN -1 ELSE CHOOSE t \in hits : \A s \in hits : t <= s

\* The intersections that count: of each line the one closest to the
\* endpoint, unless it is the endpoint itself (a shared point).
ValidHits(old, inner) == {FirstHit(old, inner, line) : line \in RayTargets} \ {-1, 0}

\* new is old, or the closest intersection of the ray, at most max_extend away.
BoundedExtension(old, inner, new) ==
    \/ new = old
    \/ LET valid == ValidHits(old, inner)
       IN \E t \in valid :
             /\ t <= geom_args.max_extend
             /\ \A s \in valid : t <= s
             /\ new = <<old[1] + t * ((old[1] - inner[1]) \div AxisLength(old, inner)),
                        old[2] + t * ((old[2] - inner[2]) \div AxisLength(old, inner))>>

InteriorKept ==
    /\ Len(geom_out.result) = Len(geom_args.coords)
    /\ \A k \in 2..(Len(geom_args.coords) - 1) : geom_out.result[k] = geom_args.coords[k]

\* C28: a path that is not a near-closed loop has each endpoint unchanged or
\* moved to the closest ray intersection, at most max_extend from where it
\* was; interior points and the number of points stay; a near-closed loop
\* is not extended and gets both endpoints replaced by their midpoint.
C28_ExtensionBounded ==
    (Extended /\ Len(geom_args.coords) >= 2) =>
        /\ InteriorKept
        /\ ~NearClosedLoop =>
              /\ BoundedExtension(geom_args.coords[1], geom_args.coords[2],
                                  geom_out.result[1])
              /\ BoundedExtension(geom_args.coords[Len(geom_args.coords)],
                                  geom_args.coords[Len(geom_args.coords) - 1],
                                  geom_out.result[Len(geom_out.result)])
        /\ NearClosedLoop =>
              /\ 2 * geom_out.result[1][1]
                    = geom_args.coords[1][1] + geom_args.coords[Len(geom_args.coords)][1]
              /\ 2 * geom_out.result[1][2]
                    = geom_args.coords[1][2] + geom_args.coords[Len(geom_args.coords)][2]
              /\ geom_out.result[Len(geom_out.result)] = geom_out.result[1]

\* C28 witness: an open path of three points had one end moved onto another
\* centerline and the other end left where it was, the boundary being too far.
C28_Witness ==
    /\ Extended
    /\ Len(geom_args.coords) = 3
    /\ geom_args.other_centerlines # <<>>
    /\ geom_out.result[1] # geom_args.coords[1]
    /\ OnLine(geom_out.result[1], geom_args.other_centerlines[1])
    /\ geom_out.result[3] = geom_args.coords[3]
    /\ ValidHits(geom_args.coords[3], geom_args.coords[2]) # {}

\* C28 second case reached: a near-closed loop with a gap was closed.
C28_LoopClosed ==
    /\ Extended
    /\ NearClosedLoop
    /\ geom_args.coords[1] # geom_args.coords[Len(geom_args.coords)]
    /\ geom_out.result[1] # geom_args.coords[1]

(***************************************************************************)
(* Decoding of a solver route (path_optimizer.py, _ortools_optimize).      *)
(***************************************************************************)
\* Position of a node in route_nodes (0 when the node is not on the route).
PositionIn(route_nodes, node) ==
    IF \E i \in 1..Len(route_nodes) : route_nodes[i] = node
    THEN CHOOSE i \in 1..Len(route_nodes) : route_nodes[i] = node
    ELSE 0

\* A route through the depot and all 2n nodes on which the start node 2i+1
\* of every segment comes before its end node 2i+2, adjacent or not: what
\* AddPickupAndDelivery with one vehicle admits.
PickupBeforeDelivery(route_nodes, n) ==
    /\ Len(route_nodes) = 2 * n + 1
    /\ \A i \in 0..(n - 1) :
          PositionIn(route_nodes, 2 * i + 1) < PositionIn(route_nodes, 2 * i + 2)

\* Every segment of segs occurs in ordering exactly once, forward or reversed.
CoversEachOnce(ordering, segs) ==
    /\ Len(ordering) = Len(segs)
    /\ \E pi \in [1..Len(segs) -> 1..Len(segs)] :
          /\ \A a \in 1..Len(segs) : \A b \in 1..Len(segs) : pi[a] = pi[b] => a = b
          /\ \A j \in 1..Len(segs) :
                \/ ordering[j] = segs[pi[j]]
                \/ ordering[j] = <<segs[pi[j]][2], segs[pi[j]][1]>>

\* C29: whenever _ortools_optimize returns an ordering with method
\* 'ortools_tsp' for a route on which every start node precedes its end node
\* (adjacent or not), every input segment occurs in the ordering exactly
\* once, forward or reversed.
C29_DecodedRouteCoversSegments ==
    (/\ pc = "done"
     /\ entry = "ortools"
     /\ solution # None
     /\ PickupBeforeDelivery(solution, Len(segments))
     /\ stats.method = "ortools_tsp") => CoversEachOnce(result, segments)

(***************************************************************************)
(* Projects and their version history: InMemoryProjectRepository           *)
(* (repositories/memory.py) and SQLAlchemyProjectRepository                *)
(* (repositories/sqlalchemy.py).  Both archive and count in the same way;  *)
(* the names are those of memory.py.  projects is self.storage, versions   *)
(* is self.versions (per project, in the order appended), next_project_id  *)
(* is self._next_project_id.  A project is described by its name, its      *)
(* project_data and its current_version; the description is handled like   *)
(* the name, and ids, messages and timestamps of the rows are left out.    *)
(* An optional input is None or <<value>>.                                 *)
(***************************************************************************)
MaxVersion == 3

ProjectIds == {1, 2}

ProjectNames == {"plan", "draft"}

ProjectDatas == {"empty", "drawn"}

Optional(S) == {None} \cup {<<x>> : x \in S}

\* "self.storage.get(project_id)".
get_project_by_id(project_id) == IF project_id \in DOMAIN projects THEN projects[project_id] ELSE None

\* get_version: the first archived row of the project with that version.
get_version(project_id, version) ==
    IF /\ project_id \in DOMAIN versions
       /\ \E i \in 1..Len(versions[project_id]) : versions[project_id][i].version = version
    THEN LET i == CHOOSE i \in 1..Len(versions[project_id]) :
                     /\ versions[project_id][i].version = version
                     /\ \A j \in 1..(i - 1) : versions[project_id][j].version # version
         IN versions[project_id][i]
    ELSE None

\* The ProjectVersion row that archives the current state of a project.
ArchiveOf(db_project) ==
    [version |-> db_project.current_version, project_data |-> db_project.project_data]

\* Mutant of Updated: the data replaced without counting a new version.
UpdatedKeepsVersion(db_project, name, project_data) ==
    [name |-> IF name # None THEN name[1] ELSE db_project.name,
     project_data |-> IF project_data # None THEN project_data[1]
                      ELSE db_project.project_data,
     current_version |-> db_project.current_version]

\* The project after update: "current_version += 1" with project_data, and
\* each field replaced that is not None.
Updated(db_project, name, project_data) ==
    [name |-> IF name # None THEN name[1] ELSE db_project.name,
     project_data |-> IF project_data # None THEN project_data[1]
                      ELSE db_project.project_data,
     current_version |-> IF project_data # None THEN db_project.current_version + 1
                         ELSE db_project.current_version]

\* The project after restore_version: the archived data, one version on.
Restored(db_project, db_version) ==
    [name |-> db_project.name,
     project_data |-> db_version.project_data,
     current_version |-> db_project.current_version + 1]

\* A dict with one more key, or one key rebound.
Bind(dict, key, value) ==
    [k \in DOMAIN dict \cup {key} |-> IF k = key THEN value ELSE dict[k]]

\* "del dict[key]".
Del(dict, key) == [k \in DOMAIN dict \ {key} |-> dict[k]]

ProjectReply(op, project_id, version, carried, found) ==
    [op |-> op, project_id |-> project_id, version |-> version,
     carried |-> carried, found |-> found]

\* A repository just constructed.
InitProjects ==
    /\ projects = <<>>
    /\ versions = <<>>
    /\ next_project_id = 1
    /\ project_reply = None
    /\ OptimizerIdle
    /\ SolverIdle
    /\ BatchIdle
    /\ TimeoutIdle
    /\ GeometryIdle
    /\ PresetsIdle
    /\ PenTypesIdle

\* create.
ProjectCreated ==
    /\ next_project_id \in ProjectIds
    /\ \E name \in ProjectNames, project_data \in ProjectDatas :
          projects' = Bind(projects, next_project_id,
                           [name |-> name, project_data |-> project_data,
                            current_version |-> 1])
    /\ versions' = Bind(versions, next_project_id, <<>>)
    /\ next_project_id' = next_project_id + 1
    /\ project_reply' = ProjectReply("create", next_project_id, 0, TRUE, TRUE)
    /\ UNCHANGED outsideProjects

\* update of a project that does not exist: "return None".
ProjectUpdateMissing ==
    /\ \E project_id \in ProjectIds, project_data \in Optional(ProjectDatas) :
          /\ get_project_by_id(project_id) = None
          /\ project_reply' = ProjectReply("update", project_id, 0,
                                           project_data # None, FALSE)
    /\ UNCHANGED <<projects, versions, next_project_id>>
    /\ UNCHANGED outsideProjects

\* update of an existing project.
ProjectUpdated ==
    /\ \E project_id \in ProjectIds, name \in Optional(ProjectNames),
          project_data \in Optional(ProjectDatas) :
          /\ get_project_by_id(project_id) # None
          /\ project_data # None => projects[project_id].current_version < MaxVersion
          /\ versions' = IF project_data # None
                         THEN [versions EXCEPT ![project_id] =
                                   Append(@, ArchiveOf(projects[project_id]))]
                         ELSE versions
          /\ projects' = [projects EXCEPT ![project_id] = Updated(@, name, project_data)]
          /\ project_reply' = ProjectReply("update", project_id, 0,
                                           project_data # None, TRUE)
    /\ UNCHANGED next_project_id
    /\ UNCHANGED outsideProjects

\* delete: the project and all its versions, or nothing.
ProjectDeleted ==
    /\ \E project_id \in ProjectIds :
          IF project_id \in DOMAIN projects
          THEN /\ projects' = Del(projects, project_id)
               /\ versions' = Del(versions, project_id)
               /\ project_reply' = ProjectReply("delete", project_id, 0, FALSE, TRUE)
          ELSE /\ UNCHANGED <<projects, versions>>
               /\ project_reply' = ProjectReply("delete", project_id, 0, FALSE, FALSE)
    /\ UNCHANGED next_project_id
    /\ UNCHANGED outsideProjects

\* restore_version of a missing project or a missing version: "return None".
ProjectRestoreMissing ==
    /\ \E project_id \in ProjectIds, version \in 0..MaxVersion :
          /\ \/ get_project_by_id(project_id) = None
             \/ get_version(project_id, version) = None
          /\ project_reply' = ProjectReply("restore", project_id, version, FALSE, FALSE)
    /\ UNCHANGED <<projects, versions, next_project_id>>
    /\ UNCHANGED outsideProjects

\* restore_version: the current state is archived, then the old data comes
\* back under a new version number.
ProjectRestored ==
    /\ \E project_id \in ProjectIds, version \in 0..MaxVersion :
          /\ get_project_by_id(project_id) # None
          /\ get_version(project_id, version) # None
          /\ projects[project_id].current_version < MaxVersion
          /\ versions' = [versions EXCEPT ![project_id] =
                              Append(@, ArchiveOf(projects[project_id]))]
          /\ projects' = [projects EXCEPT ![project_id] =
                              Restored(@, get_version(project_id, version))]
          /\ project_reply' = ProjectReply("restore", project_id, version, FALSE, TRUE)
    /\ UNCHANGED next_project_id
    /\ UNCHANGED outsideProjects

NextProjects ==
    \/ ProjectCreated
    \/ ProjectUpdateMissing
    \/ ProjectUpdated
    \/ ProjectDeleted
    \/ ProjectRestoreMissing
    \/ ProjectRestored

SpecProjects == InitProjects /\ [][NextProjects]_vars

(***************************************************************************)
(* Properties of the project version history.                              *)
(***************************************************************************)
\* The version numbers archived for a project, as a bag would count them:
\* how many archived rows carry the number n.
ArchivedUnder(project_id, n) ==
    {i \in 1..Len(versions[project_id]) : versions[project_id][i].version = n}

\* The archived rows of every project carry the numbers
\* 1 .. current_version - 1, each exactly once.
VersionHistory ==
    \A p \in DOMAIN projects :
        /\ p \in DOMAIN versions
        /\ Len(versions[p]) = projects[p].current_version - 1
        /\ \A n \in 1..(projects[p].current_version - 1) :
              Cardinality(ArchivedUnder(p, n)) = 1

\* The operation of a step is the one its reply names.
StepOf(op, found) ==
    /\ project_reply'.op = op
    /\ project_reply'.found = found

\* The step archives the state the project had before it.
ArchivesCurrent(p) ==
    /\ Len(versions'[p]) = Len(versions[p]) + 1
    /\ \E i \in 1..Len(versions'[p]) :
          /\ versions'[p][i].version = projects[p].current_version
          /\ versions'[p][i].project_data = projects[p].project_data

CountsOn(p) == projects'[p].current_version = projects[p].current_version + 1

UpdateCounts ==
    LET p == project_reply'.project_id
    IN /\ (StepOf("update", TRUE) /\ project_reply'.carried) =>
             /\ CountsOn(p)
             /\ ArchivesCurrent(p)
       /\ (StepOf("update", TRUE) /\ ~project_reply'.carried) =>
             /\ projects'[p].current_version = projects[p].current_version
             /\ projects'[p].project_data = projects[p].project_data
             /\ versions' = versions
       /\ StepOf("update", FALSE) => (projects' = projects /\ versions' = versions)

RestoreCounts ==
    LET p == project_reply'.project_id
        v == project_reply'.version
    IN /\ StepOf("restore", FALSE) => (projects' = projects /\ versions' = versions)
       /\ StepOf("restore", TRUE) =>
             /\ CountsOn(p)
             /\ ArchivesCurrent(p)
             /\ ArchivedUnder(p, v) # {}
             /\ \A i \in ArchivedUnder(p, v) :
                   projects'[p].project_data = versions[p][i].project_data

\* C30: for every project the archived versions carry exactly the numbers
\* 1 .. current_version - 1, each once; current_version grows by one on
\* every update that carries project_data and on every successful restore
\* (both archive the state that was current), and is unchanged by an update
\* without project_data and by a restore of a missing project or version,
\* which archives nothing; after a successful restore of version v the
\* project's data is the data archived under v.
C30_VersionHistory ==
    /\ []VersionHistory
    /\ [][UpdateCounts /\ RestoreCounts]_vars

\* C30 witness: a project that was updated with new data and then restored
\* to its first version, different from the data the restore archived.
C30_Witness ==
    /\ next_project_id > 1
    /\ project_reply.op = "restore"
    /\ project_reply.found
    /\ project_reply.version = 1
    /\ project_reply.project_id \in DOMAIN projects
    /\ projects[project_reply.project_id].current_version = 3
    /\ Len(versions[project_reply.project_id]) = 2
    /\ versions[project_reply.project_id][1].project_data
         = projects[project_reply.project_id].project_data
    /\ versions[project_reply.project_id][2].project_data
         # projects[project_reply.project_id].project_data

====
